---- MODULE Spec2Model ----
(***************************************************************************)
(* Model of the Lakebase provisioner (src/src/todo_app/infra.py): the four *)
(* idempotent ensure operations, protect_branch, ensure_database,          *)
(* provision_all and provision_ci, run by one or two runners against a     *)
(* shared control plane, and of the credential cache of                    *)
(* src/src/todo_app/config.py.  Every external call is one atomic step of  *)
(* the runner that issues it.                                              *)
(***************************************************************************)
EXTENDS Integers, Sequences, FiniteSets, TLC

\* ------------------------------------------------------------- bounds ----
\* Invocations one runner may start when it runs alone.
SeqCalls == 3
\* Invocations each runner may start when two runners run concurrently.
ConcCalls == 2
\* Invocations a CI runner may start.
CiCalls == 2
\* get_token calls made on the credential cache.
MaxTokenCalls == 3
MaxIdentityLen == 3
DeniedCalls == 1
MaxRequests == 3
MaxSessions == 2

\* ------------------------------------------------ program constants ----
MinCuTenths == 5
MaxCuTenths == 20
SuspendTimeoutSeconds == 300
RoleIdMiddleMax == 61
\* ensure_database: attempts, and seconds slept before a retry.
MaxAttempts == 3
RetryDelaySeconds == 5
\* OAuthTokenManager: minutes a token is kept for, and the margin before its
\* expiry within which it is no longer served.
TokenLifetimeMinutes == 55
RefreshMarginMinutes == 5

\* --------------------------------------------------------- input sets ----
Runners == {"r1", "r2"}
ProjectIds == {"todo-app"}
BranchIds == {"dev-alice"}
\* "default" and "primary" are well-formed; the control plane rejects
\* "Bad_Id" as malformed and "system" as a reserved id.
EndpointIds == {"default", "primary", "Bad_Id", "system"}
InvalidEndpointIds == {"Bad_Id"}
ReservedEndpointIds == {"system"}
\* The id the control plane gives an endpoint it provisions by itself.
AutoEndpointId == "primary"

\* Characters of identity strings, by class.
LowerChars == {"a", "b", "p", "s"}
UpperChars == {"A"}
DigitChars == {"1"}
\* Identity strings (emails, client ids) as sequences of characters.
Identities ==
    { <<"A", "@", "b">>, <<"a", ".", "b">>, <<"1", "a">>, <<"a", "_">> }

\* -------------------------------------------------------------- names ----
\* A resource name "projects/{p}/branches/{b}/<kind>/{id}" as a record; id is
\* a sequence of strings (one string for an endpoint id, the characters of a
\* role id).
NoName == [kind |-> "", pid |-> "", bid |-> "", id |-> <<>>]
ProjectName(pid) == [kind |-> "projects", pid |-> pid, bid |-> "", id |-> <<>>]
BranchName(pid, bid) == [kind |-> "branches", pid |-> pid, bid |-> bid, id |-> <<>>]
EndpointName(pid, bid, eid) ==
    [kind |-> "endpoints", pid |-> pid, bid |-> bid, id |-> <<eid>>]
RoleName(pid, bid, rid) == [kind |-> "roles", pid |-> pid, bid |-> bid, id |-> rid]

\* ------------------------------------------------- role id derivation ----
ToLower(c) == IF c = "A" THEN "a" ELSE c
IsAlpha(c) == c \in LowerChars \cup UpperChars
ReplaceChar(s, old, new) == [i \in DOMAIN s |-> IF s[i] = old THEN new ELSE s[i]]
LowerStr(s) == [i \in DOMAIN s |-> ToLower(s[i])]

RoleId(postgres_role) ==
    LET role_id == LowerStr(ReplaceChar(ReplaceChar(postgres_role, "@", "-"), ".", "-"))
    IN  IF role_id # <<>> /\ ~IsAlpha(role_id[1])
        THEN <<"s", "p", "-">> \o role_id
        ELSE role_id

\* ^[a-z]([a-z0-9-]{0,61}[a-z0-9])?$
MatchesRoleIdPattern(rid) ==
    /\ Len(rid) >= 1
    /\ rid[1] \in LowerChars
    /\ \/ Len(rid) = 1
       \/ /\ Len(rid) - 2 <= RoleIdMiddleMax
          /\ \A i \in 2..(Len(rid) - 1) : rid[i] \in LowerChars \cup DigitChars \cup {"-"}
          /\ rid[Len(rid)] \in LowerChars \cup DigitChars

\* ------------------------------------------------ resources and errors ----
NoResource == [name |-> NoName, etype |-> "", host |-> "", postgres_role |-> <<>>]
Resource(name, etype, host, prole) ==
    [name |-> name, etype |-> etype, host |-> host, postgres_role |-> prole]

NoErr == [type |-> "", msg |-> "", call |-> ""]
Err(type, msg, call) == [type |-> type, msg |-> msg, call |-> call]

MsgRwExists == "read_write endpoint already exists on branch"
MsgInvalidEndpointId == "invalid endpoint_id"
MsgReservedEndpointId == "endpoint_id is reserved: a system resource with this id already exists"
MsgRoleMapped == "role for this postgres_role already exists"
MsgInvalidRoleId == "invalid role_id"
MsgPlanLimit == "protected branch limit of the plan reached"
MsgNotAllowed == "caller may not update the branch"
MsgNotAllowedToRead == "caller may not read the resource"
\* "already exists" in str(e)
ContainsAlreadyExists(msg) ==
    msg \in {MsgRwExists, MsgReservedEndpointId, MsgRoleMapped}

\* What an ensure operation hands back: a resource, or None.
NoResult == [tag |-> "none", r |-> NoResource]
Found(res) == [tag |-> "resource", r |-> res]
Absent == [tag |-> "absent", r |-> NoResource]

VARIABLES
    projects,   \* control plane: the projects, in creation order
    branches,   \* control plane: the branches
    endpoints,  \* control plane: the endpoints, in listing order
    roles,      \* control plane: the roles
    run,        \* run[r]: the invocation runner r is executing, and where it is
    log,        \* log[r]: the control-plane calls of r's current invocation
    prev,       \* prev[r]: the invocation r made just before with the same arguments
    budget,     \* budget[r]: invocations r may still start
    allowed,    \* allowed[r]: the entry points r invokes
    protected,  \* control plane: the names of the protected branches
    databases,  \* Postgres: the branches whose application database exists
    ci,         \* what the workspace answers a CI run (identity, app, plan)
    db,         \* db[r]: where r's database bootstrap stands
    tok,        \* the credential cache of the application, its clock and its calls
    thr,        \* thr[t]: where request thread t stands inside get_token
    cfg,        \* the service's settings (environment of the process)
    names,      \* _resolved_endpoints: configured endpoint name -> resolved name
    fac,        \* _factory: the connection factory, once constructed
    req,        \* req[t]: the service call thread t is executing
    identity,   \* an identity string and the role id ensure_role derives from it
    todos,      \* Postgres: the rows of table todos, by id
    web,        \* web[t]: the CRUD request thread t is handling
    served,     \* CRUD requests accepted so far
    sess        \* sess[t]: the use of PostgresDB.session thread t is in

cp == <<projects, branches, endpoints, roles>>
\* The state of the CRUD service's request handlers, and the role id derivation
\* taken on its own.
service == <<thr, cfg, names, fac, req, identity, todos, web, served, sess>>
vars ==
    <<projects, branches, endpoints, roles, run, log, prev, budget, allowed,
      protected, databases, ci, db, tok, thr, cfg, names, fac, req, identity,
      todos, web, served, sess>>

\* -------------------------------------------------------- control plane ----
Holds(store, name) == \E i \in DOMAIN store : store[i].name = name
Fetch(store, name) ==
    store[CHOOSE i \in DOMAIN store :
            store[i].name = name /\ \A j \in 1..(i - 1) : store[j].name # name]
SelectUnder(store, pid, bid) ==
    SelectSeq(store, LAMBDA x : x.name.pid = pid /\ x.name.bid = bid)

\* get_<kind>(name): the resource, or NotFound; PermissionDenied when the
\* workspace refuses the caller this kind of read.
CpGet(store, name, call) ==
    IF call = ci.denied
    THEN [err |-> Err("PermissionDenied", MsgNotAllowedToRead, call), r |-> NoResource]
    ELSE IF Holds(store, name)
    THEN [err |-> NoErr, r |-> Fetch(store, name)]
    ELSE [err |-> Err("NotFound", "not found", call), r |-> NoResource]
Made(e, res) == IF e = NoErr THEN <<res>> ELSE <<>>
Answer(got) == IF got.err = NoErr THEN <<got.r>> ELSE <<>>

\* list_endpoints(parent), in listing order.
CpListEndpoints(pid, bid) == SelectUnder(endpoints, pid, bid)

\* The error create_project answers with, NoErr when it creates.
CpCreateProjectErr(pid) ==
    IF Holds(projects, ProjectName(pid))
    THEN Err("AlreadyExists", "project already exists", "create_project")
    ELSE NoErr

CpCreateBranchErr(pid, bid) ==
    IF ~Holds(projects, ProjectName(pid))
    THEN Err("NotFound", "project not found", "create_branch")
    ELSE IF Holds(branches, BranchName(pid, bid))
    THEN Err("AlreadyExists", "branch already exists", "create_branch")
    ELSE NoErr

CpCreateEndpointErr(pid, bid, eid) ==
    IF ~Holds(branches, BranchName(pid, bid))
    THEN Err("NotFound", "branch not found", "create_endpoint")
    ELSE IF Holds(endpoints, EndpointName(pid, bid, eid))
    THEN Err("AlreadyExists", "endpoint already exists", "create_endpoint")
    ELSE IF eid \in InvalidEndpointIds
    THEN Err("BadRequest", MsgInvalidEndpointId, "create_endpoint")
    ELSE IF eid \in ReservedEndpointIds
    THEN Err("BadRequest", MsgReservedEndpointId, "create_endpoint")
    ELSE IF \E i \in DOMAIN endpoints :
                /\ endpoints[i].name.pid = pid
                /\ endpoints[i].name.bid = bid
                /\ endpoints[i].etype = "READ_WRITE"
    THEN Err("BadRequest", MsgRwExists, "create_endpoint")
    ELSE NoErr

CpCreateRoleErr(pid, bid, rid, prole) ==
    IF ~Holds(branches, BranchName(pid, bid))
    THEN Err("NotFound", "branch not found", "create_role")
    ELSE IF Holds(roles, RoleName(pid, bid, rid))
    THEN Err("AlreadyExists", "role already exists", "create_role")
    ELSE IF ~MatchesRoleIdPattern(rid)
    THEN Err("BadRequest", MsgInvalidRoleId, "create_role")
    ELSE IF \E i \in DOMAIN roles :
                /\ roles[i].name.pid = pid
                /\ roles[i].name.bid = bid
                /\ roles[i].postgres_role = prole
    THEN Err("BadRequest", MsgRoleMapped, "create_role")
    ELSE NoErr

NewProject(pid) == Resource(ProjectName(pid), "", "", <<>>)
NewBranch(pid, bid) == Resource(BranchName(pid, bid), "", "", <<>>)
NewEndpoint(pid, bid, eid, etype) ==
    Resource(EndpointName(pid, bid, eid), etype, eid, <<>>)
NewRole(pid, bid, rid, prole) == Resource(RoleName(pid, bid, rid), "", "", prole)

\* ------------------------------------------------------------- runners ----
NoProvisionResult ==
    [project_name |-> NoName, branch_name |-> NoName, endpoint_name |-> NoName,
     host |-> "", database |-> ""]
NoParams ==
    [min_cu |-> 0, max_cu |-> 0, suspend |-> 0, role_id |-> <<>>, postgres_role |-> <<>>,
     mask |-> <<>>, password |-> 0, seconds |-> 0]
\* One control-plane call: who issued it, what it asked for, and what it answered
\* (the error, or the resources handed back).
Call(op, call, name, err, params, out) ==
    [op |-> op, call |-> call, name |-> name, err |-> err, params |-> params,
     out |-> out]

EnsureOps == {"ensure_project", "ensure_branch", "ensure_endpoint", "ensure_role"}
Entries == EnsureOps \cup {"provision_all"}
CiEntries == {"provision_ci", "protect_branch"}
\* Endpoint ids and app names a CI run is started with ("" for no app).
CiEndpointIds == {"primary", "Bad_Id"}
AppNames == {"", "todo-app"}

Idle ==
    [entry |-> "idle", op |-> "", pc |-> "idle", pid |-> "", bid |-> "", eid |-> "",
     ident |-> <<>>, err |-> NoErr, rets |-> <<>>, endpoint |-> NoResult,
     out |-> "", result |-> NoProvisionResult, fresh |-> FALSE, peer |-> "",
     app |-> "", step |-> ""]
\* A database bootstrap that has not begun: attempts made, tokens minted, the
\* token in hand (0 for none) and the last connection error.
NoDb == [attempt |-> 0, minted |-> 0, token |-> 0, last_error |-> NoErr]
NoPrev ==
    [valid |-> FALSE, out |-> "", err |-> NoErr, rets |-> <<>>, log |-> <<>>,
     fresh |-> FALSE]

FirstOp(entry) ==
    IF entry \in {"provision_all", "provision_ci"} THEN "ensure_project" ELSE entry
\* Mutant of NextOp: the endpoint is ensured before the branch.
NextOp_EndpointBeforeBranch(op) ==
    CASE op = "ensure_project" -> "ensure_endpoint"
      [] op = "ensure_endpoint" -> "ensure_branch"
      [] op = "ensure_branch" -> "ensure_role"

NextOp(op) ==
    CASE op = "ensure_project" -> "ensure_branch"
      [] op = "ensure_branch" -> "ensure_endpoint"
      [] op = "ensure_endpoint" -> "ensure_role"

\* The arguments an entry point takes; the others stay empty.
ArgsOf(entry) ==
    CASE entry = "ensure_project" ->
            {[pid |-> p, bid |-> "", eid |-> "", ident |-> <<>>] : p \in ProjectIds}
      [] entry = "ensure_branch" ->
            {[pid |-> p, bid |-> b, eid |-> "", ident |-> <<>>] :
                p \in ProjectIds, b \in BranchIds}
      [] entry = "ensure_endpoint" ->
            {[pid |-> p, bid |-> b, eid |-> e, ident |-> <<>>] :
                p \in ProjectIds, b \in BranchIds, e \in EndpointIds}
      [] entry = "ensure_role" ->
            {[pid |-> p, bid |-> b, eid |-> "", ident |-> u] :
                p \in ProjectIds, b \in BranchIds, u \in Identities}
      [] entry = "provision_all" ->
            {[pid |-> p, bid |-> b, eid |-> e, ident |-> u] :
                p \in ProjectIds, b \in BranchIds, e \in EndpointIds, u \in Identities}
      [] entry = "protect_branch" ->
            {[pid |-> p, bid |-> b, eid |-> "", ident |-> <<>>] :
                p \in ProjectIds, b \in BranchIds}
      [] entry = "provision_ci" ->
            {[pid |-> p, bid |-> b, eid |-> e, ident |-> <<>>, app |-> a] :
                p \in ProjectIds, b \in BranchIds, e \in CiEndpointIds, a \in AppNames}

Invoke(entry, a) ==
    [Idle EXCEPT !.entry = entry, !.op = FirstOp(entry), !.pc = "get",
                 !.pid = a.pid, !.bid = a.bid, !.eid = a.eid, !.ident = a.ident,
                 !.app = IF "app" \in DOMAIN a THEN a.app ELSE "",
                 !.out = "running"]

\* provision_all, after ensure_role: the ProvisionResult it builds.
ProvisionResultOf(me, endpoint) ==
    [project_name |-> ProjectName(me.pid),
     branch_name |-> BranchName(me.pid, me.bid),
     endpoint_name |-> EndpointName(me.pid, me.bid, me.eid),
     host |-> IF endpoint.tag = "resource" THEN endpoint.r.host ELSE "",
     database |-> "postgres"]

\* provision_ci, once its role steps are over: the database bootstrap.
ToDatabase(me) == [me EXCEPT !.op = "ensure_database", !.pc = "me", !.step = "database"]
\* provision_ci, after the role of the CI identity: the app's role when an app
\* is named, else the database.
AfterCiRole(me) ==
    IF me.app # "" THEN [me EXCEPT !.op = "provision_ci", !.pc = "app"]
    ELSE ToDatabase(me)
\* provision_ci: the statement that follows the step that has just returned.
CiNext(me) ==
    CASE me.op \in {"ensure_project", "ensure_branch"} ->
            [me EXCEPT !.op = NextOp(me.op), !.pc = "get"]
      [] me.op = "ensure_endpoint" -> [me EXCEPT !.op = "protect_branch", !.pc = "get"]
      [] me.op = "protect_branch" -> [me EXCEPT !.op = "provision_ci", !.pc = "me"]
      [] me.op = "ensure_role" /\ me.step = "ci_role" -> AfterCiRole(me)
      [] me.op = "ensure_role" /\ me.step = "app_role" -> ToDatabase(me)
      [] me.op = "ensure_database" -> [me EXCEPT !.pc = "done", !.out = "returned"]

\* The current operation returns res: a single call is over, provision_all and
\* provision_ci go on to their next step.
Returned(me, res) ==
    LET rets2 == Append(me.rets, [op |-> me.op, res |-> res])
        ep == IF me.op = "ensure_endpoint" THEN res ELSE me.endpoint
    IN  IF me.entry = "provision_all" /\ me.op # "ensure_role"
        THEN [me EXCEPT !.op = NextOp(me.op), !.pc = "get", !.rets = rets2,
                        !.endpoint = ep, !.err = NoErr]
        ELSE IF me.entry = "provision_ci"
        THEN CiNext([me EXCEPT !.rets = rets2, !.endpoint = ep, !.err = NoErr])
        ELSE [me EXCEPT !.pc = "done", !.out = "returned", !.rets = rets2,
                        !.endpoint = ep, !.err = NoErr,
                        !.result = IF me.entry = "provision_all"
                                   THEN ProvisionResultOf(me, ep)
                                   ELSE NoProvisionResult]

\* Mutant of Raised: the error is noted, and the run goes on with its next step.
Raised_KeepsGoing(me, e) ==
    IF me.entry = "provision_ci" /\ me.op \in {"ensure_endpoint", "protect_branch"}
    THEN [me EXCEPT !.op = "provision_ci", !.pc = "me", !.out = "raised", !.err = e]
    ELSE [me EXCEPT !.pc = "done", !.out = "raised", !.err = e]

\* The current ensure operation raises e: no caller catches it.
Raised(me, e) == [me EXCEPT !.pc = "done", !.out = "raised", !.err = e]

Step(r, rec, call) ==
    /\ run' = [run EXCEPT ![r] = rec]
    /\ log' = [log EXCEPT ![r] = Append(@, call)]
    /\ UNCHANGED <<prev, budget, allowed, protected, databases, ci, db, tok, service>>

\* A step of protect_branch, provision_ci or ensure_database: the calls it makes.
CiStep(r, rec, calls) ==
    /\ run' = [run EXCEPT ![r] = rec]
    /\ log' = [log EXCEPT ![r] = @ \o calls]
    /\ UNCHANGED <<cp, prev, budget, allowed, ci, tok, service>>

At(r, op, pc) == run[r].op = op /\ run[r].pc = pc

\* Bookkeeping, not program state: fresh records that the control plane was empty
\* when the invocation began; peer names the runner that was in the middle of the
\* same call with the same arguments when this one began.
ControlPlaneEmpty ==
    projects = <<>> /\ branches = <<>> /\ endpoints = <<>> /\ roles = <<>>
SameCall(a, b) ==
    /\ a.entry = b.entry
    /\ a.pid = b.pid /\ a.bid = b.bid /\ a.eid = b.eid /\ a.ident = b.ident
PeerOf(r, rec) ==
    IF \E q \in Runners \ {r} : run[q].out = "running" /\ SameCall(run[q], rec)
    THEN CHOOSE q \in Runners \ {r} : run[q].out = "running" /\ SameCall(run[q], rec)
    ELSE ""
Begin(r, rec) ==
    /\ run' = [q \in Runners |->
                  IF q = r
                  THEN [rec EXCEPT !.fresh = ControlPlaneEmpty, !.peer = PeerOf(r, rec)]
                  ELSE IF run[q].peer = r THEN [run[q] EXCEPT !.peer = ""]
                  ELSE run[q]]
    /\ log' = [log EXCEPT ![r] = <<>>]
    /\ budget' = [budget EXCEPT ![r] = @ - 1]
    /\ db' = [db EXCEPT ![r] = NoDb]
    /\ UNCHANGED <<cp, allowed, protected, databases, ci, tok, service>>

Start(r) ==
    /\ run[r].pc \in {"idle", "done"}
    /\ budget[r] > 0
    /\ \E entry \in allowed[r] : \E a \in ArgsOf(entry) : Begin(r, Invoke(entry, a))
    /\ prev' = [prev EXCEPT ![r] = NoPrev]

\* The same call again, with identical arguments.
Repeat(r) ==
    /\ run[r].pc = "done"
    /\ budget[r] > 0
    /\ Begin(r, Invoke(run[r].entry,
                       [pid |-> run[r].pid, bid |-> run[r].bid, eid |-> run[r].eid,
                        ident |-> IF run[r].entry = "provision_ci" THEN <<>>
                                  ELSE run[r].ident,
                        app |-> run[r].app]))
    /\ prev' = [prev EXCEPT ![r] =
                  [valid |-> TRUE, out |-> run[r].out, err |-> run[r].err,
                   rets |-> run[r].rets, log |-> log[r], fresh |-> run[r].fresh]]

\* Mutant of AfterGet: the early return on a successful fetch is missing.
AfterGet_NoEarlyReturn(err) ==
    IF err = NoErr \/ err.type = "NotFound" THEN "create" ELSE "raise"

\* Mutant of AfterGet: every failure of the fetch is taken for NotFound.
AfterGet_AnyErrorCreates(err) == IF err = NoErr THEN "return" ELSE "create"

\* try: get ... return / except NotFound: pass -- any other error propagates.
AfterGet(err) ==
    IF err = NoErr THEN "return"
    ELSE IF err.type = "NotFound" THEN "create"
    ELSE "raise"

\* Mutant of AfterCreateError: the except AlreadyExists clause is missing.
AfterCreateError_NoRecovery(e) == "raise"

\* except AlreadyExists: fetch again -- any other error propagates.
AfterCreateError(e) == IF e.type = "AlreadyExists" THEN "refetch" ELSE "raise"

\* ------------------------------------------------------ ensure_project ----
EnsureProjectGet(r) ==
    /\ At(r, "ensure_project", "get")
    /\ LET me == run[r]
           name == ProjectName(me.pid)
           got == CpGet(projects, name, "get_project")
           call == Call(me.op, "get_project", name, got.err, NoParams, Answer(got))
           then == AfterGet(got.err)
       IN  IF then = "return" THEN Step(r, Returned(me, Found(got.r)), call)
           ELSE IF then = "create" THEN Step(r, [me EXCEPT !.pc = "create"], call)
           ELSE Step(r, Raised(me, got.err), call)
    /\ UNCHANGED cp

EnsureProjectCreate(r) ==
    /\ At(r, "ensure_project", "create")
    /\ LET me == run[r]
           name == ProjectName(me.pid)
           e == CpCreateProjectErr(me.pid)
           call == Call(me.op, "create_project", name, e, NoParams, Made(e, NewProject(me.pid)))
       IN  IF e = NoErr
           THEN /\ projects' = Append(projects, NewProject(me.pid))
                /\ Step(r, Returned(me, Found(NewProject(me.pid))), call)
           ELSE /\ UNCHANGED projects
                /\ IF AfterCreateError(e) = "refetch"
                   THEN Step(r, [me EXCEPT !.pc = "refetch"], call)
                   ELSE Step(r, Raised(me, e), call)
    /\ UNCHANGED <<branches, endpoints, roles>>

EnsureProjectRefetch(r) ==
    /\ At(r, "ensure_project", "refetch")
    /\ LET me == run[r]
           name == ProjectName(me.pid)
           got == CpGet(projects, name, "get_project")
           call == Call(me.op, "get_project", name, got.err, NoParams, Answer(got))
       IN  IF got.err = NoErr THEN Step(r, Returned(me, Found(got.r)), call)
           ELSE Step(r, Raised(me, got.err), call)
    /\ UNCHANGED cp

\* ------------------------------------------------------- ensure_branch ----
EnsureBranchGet(r) ==
    /\ At(r, "ensure_branch", "get")
    /\ LET me == run[r]
           name == BranchName(me.pid, me.bid)
           got == CpGet(branches, name, "get_branch")
           call == Call(me.op, "get_branch", name, got.err, NoParams, Answer(got))
           then == AfterGet(got.err)
       IN  IF then = "return" THEN Step(r, Returned(me, Found(got.r)), call)
           ELSE IF then = "create" THEN Step(r, [me EXCEPT !.pc = "create"], call)
           ELSE Step(r, Raised(me, got.err), call)
    /\ UNCHANGED cp

\* The control plane may provision a read-write endpoint of its own on the new branch.
EnsureBranchCreate(r) ==
    /\ At(r, "ensure_branch", "create")
    /\ LET me == run[r]
           name == BranchName(me.pid, me.bid)
           e == CpCreateBranchErr(me.pid, me.bid)
           call == Call(me.op, "create_branch", name, e, NoParams,
                        Made(e, NewBranch(me.pid, me.bid)))
       IN  IF e = NoErr
           THEN /\ branches' = Append(branches, NewBranch(me.pid, me.bid))
                /\ \E auto \in BOOLEAN :
                      endpoints' =
                         IF auto
                         THEN Append(endpoints,
                                     NewEndpoint(me.pid, me.bid, AutoEndpointId, "READ_WRITE"))
                         ELSE endpoints
                /\ Step(r, Returned(me, Found(NewBranch(me.pid, me.bid))), call)
           ELSE /\ UNCHANGED <<branches, endpoints>>
                /\ IF AfterCreateError(e) = "refetch"
                   THEN Step(r, [me EXCEPT !.pc = "refetch"], call)
                   ELSE Step(r, Raised(me, e), call)
    /\ UNCHANGED <<projects, roles>>

EnsureBranchRefetch(r) ==
    /\ At(r, "ensure_branch", "refetch")
    /\ LET me == run[r]
           name == BranchName(me.pid, me.bid)
           got == CpGet(branches, name, "get_branch")
           call == Call(me.op, "get_branch", name, got.err, NoParams, Answer(got))
       IN  IF got.err = NoErr THEN Step(r, Returned(me, Found(got.r)), call)
           ELSE Step(r, Raised(me, got.err), call)
    /\ UNCHANGED cp

\* ----------------------------------------------------- ensure_endpoint ----
\* Mutant of EndpointParams: the autoscaling limits are swapped.
EndpointParams_SwappedLimits ==
    [NoParams EXCEPT !.min_cu = MaxCuTenths, !.max_cu = MinCuTenths,
                     !.suspend = SuspendTimeoutSeconds]

EndpointParams ==
    [NoParams EXCEPT !.min_cu = MinCuTenths, !.max_cu = MaxCuTenths,
                     !.suspend = SuspendTimeoutSeconds]

\* Mutant of AfterCreateEndpointError: the except AlreadyExists clause is missing.
AfterCreateEndpointError_NoRefetch(e) ==
    IF e.type = "BadRequest" /\ ContainsAlreadyExists(e.msg) THEN "list" ELSE "raise"

\* Mutant of AfterCreateEndpointError: every BadRequest is taken for a conflict.
AfterCreateEndpointError_AlwaysList(e) ==
    IF e.type = "AlreadyExists" THEN "refetch"
    ELSE IF e.type = "BadRequest" THEN "list"
    ELSE "raise"

\* The except clauses of ensure_endpoint: what a failed create leads to.
AfterCreateEndpointError(e) ==
    IF e.type = "AlreadyExists" THEN "refetch"
    ELSE IF e.type = "BadRequest" /\ ContainsAlreadyExists(e.msg) THEN "list"
    ELSE "raise"

\* Mutant of EndpointFallback: hands back an empty Endpoint instead of a listed one.
EndpointFallback_EmptyEndpoint(listing, e) ==
    [raise |-> FALSE, res |-> Found(NoResource), err |-> NoErr]

\* Mutant of EndpointFallback: the last listed endpoint instead of the first.
EndpointFallback_LastListed(listing, e) ==
    IF listing # <<>>
    THEN [raise |-> FALSE, res |-> Found(listing[Len(listing)]), err |-> NoErr]
    ELSE [raise |-> TRUE, res |-> NoResult, err |-> e]

\* Mutant of EndpointFallback: an empty listing raises an error of its own.
EndpointFallback_NewError(listing, e) ==
    IF listing # <<>>
    THEN [raise |-> FALSE, res |-> Found(listing[1]), err |-> NoErr]
    ELSE [raise |-> TRUE, res |-> NoResult,
          err |-> Err("NotFound", "no endpoint found", "list_endpoints")]

\* The loop over list_endpoints: the first listed endpoint, or the create error again.
EndpointFallback(listing, e) ==
    IF listing # <<>>
    THEN [raise |-> FALSE, res |-> Found(listing[1]), err |-> NoErr]
    ELSE [raise |-> TRUE, res |-> NoResult, err |-> e]

EnsureEndpointGet(r) ==
    /\ At(r, "ensure_endpoint", "get")
    /\ LET me == run[r]
           name == EndpointName(me.pid, me.bid, me.eid)
           got == CpGet(endpoints, name, "get_endpoint")
           call == Call(me.op, "get_endpoint", name, got.err, NoParams, Answer(got))
           then == AfterGet(got.err)
       IN  IF then = "return" THEN Step(r, Returned(me, Found(got.r)), call)
           ELSE IF then = "create" THEN Step(r, [me EXCEPT !.pc = "create"], call)
           ELSE Step(r, Raised(me, got.err), call)
    /\ UNCHANGED cp

EnsureEndpointCreate(r) ==
    /\ At(r, "ensure_endpoint", "create")
    /\ LET me == run[r]
           name == EndpointName(me.pid, me.bid, me.eid)
           e == CpCreateEndpointErr(me.pid, me.bid, me.eid)
           made == NewEndpoint(me.pid, me.bid, me.eid, "READ_WRITE")
           call == Call(me.op, "create_endpoint", name, e, EndpointParams, Made(e, made))
           then == AfterCreateEndpointError(e)
       IN  IF e = NoErr
           THEN /\ endpoints' = Append(endpoints, made)
                /\ Step(r, Returned(me, Found(made)), call)
           ELSE /\ UNCHANGED endpoints
                /\ IF then = "raise" THEN Step(r, Raised(me, e), call)
                   ELSE Step(r, [me EXCEPT !.pc = then, !.err = e], call)
    /\ UNCHANGED <<projects, branches, roles>>

EnsureEndpointRefetch(r) ==
    /\ At(r, "ensure_endpoint", "refetch")
    /\ LET me == run[r]
           name == EndpointName(me.pid, me.bid, me.eid)
           got == CpGet(endpoints, name, "get_endpoint")
           call == Call(me.op, "get_endpoint", name, got.err, NoParams, Answer(got))
       IN  IF got.err = NoErr THEN Step(r, Returned(me, Found(got.r)), call)
           ELSE Step(r, Raised(me, got.err), call)
    /\ UNCHANGED cp

EnsureEndpointList(r) ==
    /\ At(r, "ensure_endpoint", "list")
    /\ LET me == run[r]
           listing == CpListEndpoints(me.pid, me.bid)
           fb == EndpointFallback(listing, me.err)
           call == Call(me.op, "list_endpoints", BranchName(me.pid, me.bid), NoErr,
                        NoParams, listing)
       IN  IF fb.raise THEN Step(r, Raised(me, fb.err), call)
           ELSE Step(r, Returned(me, fb.res), call)
    /\ UNCHANGED cp

\* --------------------------------------------------------- ensure_role ----
\* Mutant of AfterCreateRoleError: only a BadRequest is taken for a conflict.
AfterCreateRoleError_RaiseAlreadyExists(e) ==
    IF e.type = "BadRequest" THEN "absent" ELSE "raise"

\* except (AlreadyExists, BadRequest): return None
AfterCreateRoleError(e) ==
    IF e.type \in {"AlreadyExists", "BadRequest"} THEN "absent" ELSE "raise"

EnsureRoleGet(r) ==
    /\ At(r, "ensure_role", "get")
    /\ LET me == run[r]
           name == RoleName(me.pid, me.bid, RoleId(me.ident))
           got == CpGet(roles, name, "get_role")
           call == Call(me.op, "get_role", name, got.err, NoParams, Answer(got))
           then == AfterGet(got.err)
       IN  IF then = "return" THEN Step(r, Returned(me, Found(got.r)), call)
           ELSE IF then = "create" THEN Step(r, [me EXCEPT !.pc = "create"], call)
           ELSE Step(r, Raised(me, got.err), call)
    /\ UNCHANGED cp

EnsureRoleCreate(r) ==
    /\ At(r, "ensure_role", "create")
    /\ LET me == run[r]
           role_id == RoleId(me.ident)
           name == RoleName(me.pid, me.bid, role_id)
           e == CpCreateRoleErr(me.pid, me.bid, role_id, me.ident)
           made == NewRole(me.pid, me.bid, role_id, me.ident)
           call == Call(me.op, "create_role", name, e,
                        [NoParams EXCEPT !.role_id = role_id, !.postgres_role = me.ident],
                        Made(e, made))
       IN  IF e = NoErr
           THEN /\ roles' = Append(roles, made)
                /\ Step(r, Returned(me, Found(made)), call)
           ELSE /\ UNCHANGED roles
                /\ IF AfterCreateRoleError(e) = "absent"
                   THEN Step(r, Returned(me, Absent), call)
                   ELSE Step(r, Raised(me, e), call)
    /\ UNCHANGED <<projects, branches, endpoints>>

\* ------------------------------------------------------ protect_branch ----
\* _SnakeCaseFieldMask(["spec.is_protected"]): the paths of the update mask.
ProtectMask == <<"spec.is_protected">>

\* update_branch(name, ...): what the workspace's plan and permissions answer.
CpUpdateBranchErr(name) ==
    IF ~Holds(branches, name)
    THEN Err("NotFound", "branch not found", "update_branch")
    ELSE IF ci.update = "limit"
    THEN Err("BadRequest", MsgPlanLimit, "update_branch")
    ELSE IF ci.update = "denied"
    THEN Err("PermissionDenied", MsgNotAllowed, "update_branch")
    ELSE NoErr

\* Mutant of AlreadyProtected: the protection flag of the fetched branch is ignored.
AlreadyProtected_Ignored(name) == FALSE

\* branch.spec and branch.spec.is_protected
AlreadyProtected(name) == name \in protected

\* except BadRequest: return None -- any other error propagates.
AfterUpdateError(e) == IF e.type = "BadRequest" THEN "absent" ELSE "raise"

\* get_branch, outside any try; an already protected branch is returned as it is.
ProtectBranchGet(r) ==
    /\ At(r, "protect_branch", "get")
    /\ LET me == run[r]
           name == BranchName(me.pid, me.bid)
           got == CpGet(branches, name, "get_branch")
           call == Call(me.op, "get_branch", name, got.err, NoParams, Answer(got))
       IN  IF got.err # NoErr THEN CiStep(r, Raised(me, got.err), <<call>>)
           ELSE IF AlreadyProtected(name)
           THEN CiStep(r, Returned(me, Found(got.r)), <<call>>)
           ELSE CiStep(r, [me EXCEPT !.pc = "update"], <<call>>)
    /\ UNCHANGED <<protected, databases, db>>

ProtectBranchUpdate(r) ==
    /\ At(r, "protect_branch", "update")
    /\ LET me == run[r]
           name == BranchName(me.pid, me.bid)
           e == CpUpdateBranchErr(name)
           call == Call(me.op, "update_branch", name, e,
                        [NoParams EXCEPT !.mask = ProtectMask],
                        Made(e, NewBranch(me.pid, me.bid)))
       IN  IF e = NoErr
           THEN /\ protected' =
                      IF \E i \in DOMAIN ProtectMask : ProtectMask[i] = "spec.is_protected"
                      THEN protected \cup {name}
                      ELSE protected
                /\ CiStep(r, Returned(me, Found(NewBranch(me.pid, me.bid))), <<call>>)
           ELSE /\ UNCHANGED protected
                /\ IF AfterUpdateError(e) = "absent"
                   THEN CiStep(r, Returned(me, Absent), <<call>>)
                   ELSE CiStep(r, Raised(me, e), <<call>>)
    /\ UNCHANGED <<databases, db>>

\* -------------------------------------------------------- provision_ci ----
\* me = current_user.me(); the role of the CI service principal when the
\* client is configured with a client id.
CiIdentity(r) ==
    /\ At(r, "provision_ci", "me")
    /\ LET me == run[r]
           call == Call(me.op, "current_user.me", NoName, NoErr, NoParams, <<>>)
       IN  IF ci.sp
           THEN CiStep(r, [me EXCEPT !.op = "ensure_role", !.pc = "get",
                                     !.ident = ci.user_name, !.step = "ci_role"],
                       <<call>>)
           ELSE CiStep(r, AfterCiRole(me), <<call>>)
    /\ UNCHANGED <<protected, databases, db>>

\* apps.get(name=app_name); the role of the app's service principal when it has one.
CiAppGet(r) ==
    /\ At(r, "provision_ci", "app")
    /\ LET me == run[r]
           e == IF ci.app = "missing" THEN Err("NotFound", "app not found", "apps.get")
                ELSE NoErr
           call == Call(me.op, "apps.get", NoName, e, NoParams, <<>>)
       IN  IF e # NoErr THEN CiStep(r, Raised(me, e), <<call>>)
           ELSE IF ci.app_sp # <<>>
           THEN CiStep(r, [me EXCEPT !.op = "ensure_role", !.pc = "get",
                                     !.ident = ci.app_sp, !.step = "app_role"],
                       <<call>>)
           ELSE CiStep(r, ToDatabase(me), <<call>>)
    /\ UNCHANGED <<protected, databases, db>>

\* ----------------------------------------------------- ensure_database ----
\* endpoint.name or the name built from the requested ids.
CredentialEndpoint(me) ==
    IF me.endpoint.r.name # NoName THEN me.endpoint.r.name
    ELSE EndpointName(me.pid, me.bid, me.eid)
\* The errors of the n-th attempt, told apart by their text.
ConnectError(n) ==
    Err("OperationalError", <<"connection refused (1)", "connection refused (2)",
                              "connection refused (3)">>[n], "connect")
StatementError(n) ==
    Err("OperationalError", <<"template database in use (1)",
                              "template database in use (2)",
                              "template database in use (3)">>[n], "execute")
DuplicateDatabase == Err("DuplicateDatabase", "database already exists", "execute")
InsufficientPrivilege == Err("ProgrammingError", "permission denied", "execute")
MintError == Err("PermissionDenied", "credential refused", "generate_database_credential")

\* Mutant of LastError: the first connection error is kept.
LastError_KeepsFirst(last_error, e) == IF last_error = NoErr THEN e ELSE last_error

\* last_error = e
LastError(last_error, e) == e

\* Mutant of AfterOperationalError: no attempt is made again.
AfterOperationalError_NoRetry(attempt) == "raise"

\* for attempt in range(3) ... raise last_error
AfterOperationalError(attempt) == IF attempt < MaxAttempts THEN "retry" ELSE "raise"

\* Mutant of AfterStatementError: a duplicate database is tried again.
AfterStatementError_DuplicateRetried(e) ==
    IF e.type \in {"DuplicateDatabase", "OperationalError"} THEN "retry" ELSE "raise"

\* The handlers around CREATE DATABASE: except DuplicateDatabase inside, except
\* OperationalError outside.
AfterStatementError(e) ==
    IF e.type = "DuplicateDatabase" THEN "return"
    ELSE IF e.type = "OperationalError" THEN "retry"
    ELSE "raise"

DbMe(r) ==
    /\ At(r, "ensure_database", "me")
    /\ CiStep(r, [run[r] EXCEPT !.pc = "mint"],
              <<Call("ensure_database", "current_user.me", NoName, NoErr, NoParams, <<>>)>>)
    /\ UNCHANGED <<protected, databases, db>>

\* generate_database_credential, before the loop and before every retry; it is
\* outside the try, so its failure propagates.
DbMint(r) ==
    /\ At(r, "ensure_database", "mint")
    /\ \E ok \in BOOLEAN :
          LET me == run[r]
              e == IF ok THEN NoErr ELSE MintError
              token == db[r].minted + 1
              call == Call(me.op, "generate_database_credential", CredentialEndpoint(me),
                           e, [NoParams EXCEPT !.password = IF ok THEN token ELSE 0], <<>>)
          IN  IF ok
              THEN /\ db' = [db EXCEPT ![r].minted = token, ![r].token = token]
                   /\ CiStep(r, [me EXCEPT !.pc = "connect"], <<call>>)
              ELSE /\ UNCHANGED db
                   /\ CiStep(r, Raised(me, e), <<call>>)
    /\ UNCHANGED <<protected, databases>>

\* time.sleep(5) before a retry.
DbSleep(r) ==
    /\ At(r, "ensure_database", "sleep")
    /\ CiStep(r, [run[r] EXCEPT !.pc = "mint"],
              <<Call("ensure_database", "sleep", NoName, NoErr,
                     [NoParams EXCEPT !.seconds = RetryDelaySeconds], <<>>)>>)
    /\ UNCHANGED <<protected, databases, db>>

\* psycopg.connect(..., password=cred.token): the endpoint may not be up yet.
DbConnect(r) ==
    /\ At(r, "ensure_database", "connect")
    /\ \E ok \in BOOLEAN :
          LET me == run[r]
              n == db[r].attempt + 1
              e == IF ok THEN NoErr ELSE ConnectError(n)
              call == Call(me.op, "connect", CredentialEndpoint(me), e,
                           [NoParams EXCEPT !.password = db[r].token], <<>>)
          IN  IF ok
              THEN /\ db' = [db EXCEPT ![r].attempt = n]
                   /\ CiStep(r, [me EXCEPT !.pc = "execute"], <<call>>)
              ELSE LET last == LastError(db[r].last_error, e)
                   IN  /\ db' = [db EXCEPT ![r].attempt = n, ![r].last_error = last]
                       /\ IF AfterOperationalError(n) = "retry"
                          THEN CiStep(r, [me EXCEPT !.pc = "sleep"], <<call>>)
                          ELSE CiStep(r, Raised(me, last), <<call>>)
    /\ UNCHANGED <<protected, databases>>

\* Mutant of StatementCalls: close sits after the statement, not in a finally
\* clause.
StatementCalls_NoFinally(op, branch, e) ==
    IF e = NoErr
    THEN <<Call(op, "execute", branch, e, NoParams, <<>>),
           Call(op, "close", branch, NoErr, NoParams, <<>>)>>
    ELSE <<Call(op, "execute", branch, e, NoParams, <<>>)>>

\* try: conn.execute(...) ... finally: conn.close()
StatementCalls(op, branch, e) ==
    <<Call(op, "execute", branch, e, NoParams, <<>>),
      Call(op, "close", branch, NoErr, NoParams, <<>>)>>

\* conn.execute("CREATE DATABASE ...") and, in the finally clause, conn.close().
DbExecute(r) ==
    /\ At(r, "ensure_database", "execute")
    /\ LET me == run[r]
           branch == BranchName(me.pid, me.bid)
           answers == IF branch \in databases THEN {DuplicateDatabase}
                      ELSE {NoErr, StatementError(db[r].attempt), InsufficientPrivilege}
       IN  \E e \in answers :
              LET calls == StatementCalls(me.op, branch, e)
                  then == AfterStatementError(e)
              IN  /\ databases' = IF e = NoErr THEN databases \cup {branch} ELSE databases
                  /\ IF e = NoErr \/ then = "return"
                     THEN /\ CiStep(r, Returned(me, Absent), calls)
                          /\ UNCHANGED db
                     ELSE IF then = "retry"
                     THEN LET last == LastError(db[r].last_error, e)
                          IN  /\ db' = [db EXCEPT ![r].last_error = last]
                              /\ IF AfterOperationalError(db[r].attempt) = "retry"
                                 THEN CiStep(r, [me EXCEPT !.pc = "sleep"], calls)
                                 ELSE CiStep(r, Raised(me, last), calls)
                     ELSE /\ CiStep(r, Raised(me, e), calls)
                          /\ UNCHANGED db
    /\ UNCHANGED protected

\* --------------------------------------------------- OAuthTokenManager ----
\* Endpoint names get_token is called with ("" for none), wall-clock readings in
\* minutes, and the minutes a mint may take.
TokenEndpoints == {"", "endpoints/default", "endpoints/primary"}
ClockReadings == {0, 49, 50, 99, 100}
MintMinutes == {0, 1}

NoToken == 0
NoExpiry == -1
\* __init__: nothing cached.
EmptyCache == [token |-> NoToken, endpoint_name |-> "", expires_at |-> NoExpiry]
NoTokenCall ==
    [endpoint |-> "", at |-> 0, ret |-> NoToken, mint |-> FALSE, before |-> EmptyCache,
     after |-> EmptyCache, mint_err |-> NoErr, raised |-> NoErr]
\* The manager before its first call: cache, clock, calls made, the tokens the
\* workspace has minted (for which endpoint, when) and the last two calls.
NoTok ==
    [cache |-> EmptyCache, now |-> 0, count |-> 0, issued |-> <<>>,
     last |-> NoTokenCall, prior |-> NoTokenCall]

\* Mutant of CacheHit: the endpoint the token was minted for is not compared.
CacheHit_AnyEndpoint(cache, endpoint_name, now) ==
    /\ cache.token # NoToken
    /\ cache.expires_at # NoExpiry
    /\ now < cache.expires_at - RefreshMarginMinutes

\* Mutant of CacheHit: the token is served until the minute it expires.
CacheHit_NoMargin(cache, endpoint_name, now) ==
    /\ cache.token # NoToken
    /\ cache.endpoint_name = endpoint_name
    /\ cache.expires_at # NoExpiry
    /\ now < cache.expires_at

\* self._token and self._endpoint_name == endpoint_name and self._expires_at
\* and datetime.now() < self._expires_at - timedelta(minutes=5)
CacheHit(cache, endpoint_name, now) ==
    /\ cache.token # NoToken
    /\ cache.endpoint_name = endpoint_name
    /\ cache.expires_at # NoExpiry
    /\ now < cache.expires_at - RefreshMarginMinutes

\* The three assignments after a mint.
Cached(token, endpoint_name, now) ==
    [token |-> token, endpoint_name |-> endpoint_name,
     expires_at |-> now + TokenLifetimeMinutes]

Called(endpoint_name, ret, mint, after, now) ==
    [tok EXCEPT !.cache = after, !.now = now, !.count = @ + 1,
                !.prior = tok.last,
                !.last = [endpoint |-> endpoint_name, at |-> tok.now, ret |-> ret,
                          mint |-> mint, before |-> tok.cache, after |-> after,
                          mint_err |-> NoErr, raised |-> NoErr]]

\* What _get_workspace_client() or generate_database_credential raise when the
\* mint fails: the workspace refuses, the endpoint is unknown, the request does
\* not get through, the client cannot be configured.
MintFailures ==
    { MintError,
      Err("NotFound", "endpoint not found", "generate_database_credential"),
      Err("ConnectionError", "connection reset", "generate_database_credential"),
      Err("ValueError", "cannot configure default credentials", "WorkspaceClient") }

\* Mutant of AfterMintError: the exception reaches the caller.
AfterMintError_Raises(e) == [ret |-> NoToken, raised |-> e]

\* "except Exception as e": logged, and None returned.
AfterMintError(e) == [ret |-> NoToken, raised |-> NoErr]

\* Mutant of FailedMintCache: a failed mint drops what was cached.
FailedMintCache_Dropped(cache) == EmptyCache

\* The three assignments follow the mint inside the try: when it raises, none
\* of them has run.
FailedMintCache(cache) == cache

\* One whole call get_token(endpoint_name): None without a name; the cached
\* token on a hit; else a mint, whose failure is logged and answered with None.
\* e is what the mint answers if one is made, d the minutes it takes.
TokenCall(endpoint_name, e, d) ==
    IF endpoint_name = ""
    THEN Called(endpoint_name, NoToken, FALSE, tok.cache, tok.now)
    ELSE IF CacheHit(tok.cache, endpoint_name, tok.now)
    THEN Called(endpoint_name, tok.cache.token, FALSE, tok.cache, tok.now)
    ELSE LET now == tok.now + d
             token == Len(tok.issued) + 1
         IN  IF e = NoErr
             THEN [Called(endpoint_name, token, TRUE,
                          Cached(token, endpoint_name, now), now)
                   EXCEPT !.issued =
                       Append(tok.issued, [endpoint |-> endpoint_name, at |-> now])]
             ELSE [Called(endpoint_name, AfterMintError(e).ret, TRUE,
                          FailedMintCache(tok.cache), now)
                   EXCEPT !.last.mint_err = e,
                          !.last.raised = AfterMintError(e).raised]

GetToken(endpoint_name) ==
    /\ tok.count < MaxTokenCalls
    /\ \E e \in {NoErr} \cup MintFailures : \E d \in MintMinutes :
          tok' = TokenCall(endpoint_name, e, d)
    /\ UNCHANGED <<cp, run, log, prev, budget, allowed, protected, databases, ci, db, service>>

\* The wall clock between two calls; it may be set back.
ClockReads(t) ==
    /\ tok.count < MaxTokenCalls
    /\ t # tok.now
    /\ tok' = [tok EXCEPT !.now = t]
    /\ UNCHANGED <<cp, run, log, prev, budget, allowed, protected, databases, ci, db, service>>

\* ------------------------------------- get_token, statement by statement ----
\* Request threads sharing _token_manager. Each step below is one read or one
\* write of a field of the manager, or the remote mint; threads interleave
\* between steps.
Threads == {"t1", "t2"}
RaceEndpoints == {"endpoints/default", "endpoints/primary"}
NoThread ==
    [pc |-> "idle", endpoint |-> "", cred |-> NoToken, ret |-> NoToken,
     hit |-> FALSE, seen |-> NoExpiry]
InGetToken(t, pc) == thr[t].pc = pc
Goto(t, pc) == thr' = [thr EXCEPT ![t].pc = pc]
OutsideGetToken ==
    UNCHANGED <<cp, run, log, prev, budget, allowed, protected, databases, ci, db,
                cfg, names, fac, req, identity, todos, web, served, sess>>

\* get_token(endpoint_name) is entered; "if not endpoint_name: return None".
TEnter(t, endpoint_name) ==
    /\ InGetToken(t, "idle")
    /\ tok.count < MaxTokenCalls
    /\ thr' = [thr EXCEPT ![t] =
                  IF endpoint_name = ""
                  THEN [NoThread EXCEPT !.pc = "done"]
                  ELSE [NoThread EXCEPT !.pc = "test_token", !.endpoint = endpoint_name]]
    /\ tok' = [tok EXCEPT !.count = @ + 1]
    /\ OutsideGetToken

\* "self._token and"
TTestToken(t) ==
    /\ InGetToken(t, "test_token")
    /\ Goto(t, IF tok.cache.token # NoToken THEN "test_endpoint" ELSE "mint")
    /\ UNCHANGED tok /\ OutsideGetToken

\* "self._endpoint_name == endpoint_name and"
TTestEndpoint(t) ==
    /\ InGetToken(t, "test_endpoint")
    /\ Goto(t, IF tok.cache.endpoint_name = thr[t].endpoint
               THEN "test_expiry" ELSE "mint")
    /\ UNCHANGED tok /\ OutsideGetToken

\* "self._expires_at and"
TTestExpiry(t) ==
    /\ InGetToken(t, "test_expiry")
    /\ Goto(t, IF tok.cache.expires_at # NoExpiry THEN "test_fresh" ELSE "mint")
    /\ UNCHANGED tok /\ OutsideGetToken

\* "datetime.now() < self._expires_at - timedelta(minutes=5)"
TTestFresh(t) ==
    /\ InGetToken(t, "test_fresh")
    /\ thr' = [thr EXCEPT ![t] =
                  IF tok.now < tok.cache.expires_at - RefreshMarginMinutes
                  THEN [@ EXCEPT !.pc = "return", !.hit = TRUE,
                                 !.seen = tok.cache.expires_at]
                  ELSE [@ EXCEPT !.pc = "mint"]]
    /\ UNCHANGED tok /\ OutsideGetToken

\* generate_database_credential(endpoint=endpoint_name): a new token for that
\* endpoint, or an exception, which is logged and answered with None.
TMint(t) ==
    /\ InGetToken(t, "mint")
    /\ \E e \in {NoErr, MintError} :
          IF e = NoErr
          THEN /\ thr' = [thr EXCEPT ![t].pc = "set_token",
                                     ![t].cred = Len(tok.issued) + 1]
               /\ tok' = [tok EXCEPT !.issued =
                             Append(@, [endpoint |-> thr[t].endpoint, at |-> NoExpiry])]
          ELSE /\ thr' = [thr EXCEPT ![t].pc = "done",
                                     ![t].ret = AfterMintError(e).ret]
               /\ UNCHANGED tok
    /\ OutsideGetToken

\* "self._token = cred.token"
TSetToken(t) ==
    /\ InGetToken(t, "set_token")
    /\ tok' = [tok EXCEPT !.cache.token = thr[t].cred]
    /\ Goto(t, "set_endpoint")
    /\ OutsideGetToken

\* "self._endpoint_name = endpoint_name"
TSetEndpoint(t) ==
    /\ InGetToken(t, "set_endpoint")
    /\ tok' = [tok EXCEPT !.cache.endpoint_name = thr[t].endpoint]
    /\ Goto(t, "set_expiry")
    /\ OutsideGetToken

\* "self._expires_at = datetime.now() + timedelta(minutes=55)"; issued keeps the
\* expiry this mint was given.
TSetExpiry(t) ==
    /\ InGetToken(t, "set_expiry")
    /\ tok' = [tok EXCEPT !.cache.expires_at = tok.now + TokenLifetimeMinutes,
                          !.issued[thr[t].cred].at = tok.now + TokenLifetimeMinutes]
    /\ Goto(t, "return")
    /\ OutsideGetToken

\* "return self._token", on the cached path and after a mint alike: the field is
\* read again.
TReturn(t) ==
    /\ InGetToken(t, "return")
    /\ thr' = [thr EXCEPT ![t].pc = "done", ![t].ret = tok.cache.token]
    /\ UNCHANGED tok /\ OutsideGetToken

\* The handler goes on with what it was given; the thread serves a next request.
TLeave(t) ==
    /\ InGetToken(t, "done")
    /\ thr' = [thr EXCEPT ![t] = NoThread]
    /\ UNCHANGED tok /\ OutsideGetToken

\* ------------------------------------------------------ the CRUD service ----
\* LakebaseSettings of the process: project "todo-app", one branch, the
\* endpoint_id and password of the environment.
ServiceProject == "todo-app"
ServiceBranch == "dev-alice"
ConfiguredEndpointIds == {"default", "primary"}
ConfiguredPasswords == {"", "secret"}
NoSettings == [endpoint_id |-> "default", password |-> ""]
\* The endpoint_name property: the configured name, resolved or not.
Expected == EndpointName(ServiceProject, ServiceBranch, cfg.endpoint_id)
ConfiguredNames ==
    {EndpointName(ServiceProject, ServiceBranch, e) : e \in ConfiguredEndpointIds}

\* The endpoint name as the string get_token receives.
EndpointPath(name) ==
    CASE name.id = <<"default">> -> "endpoints/default"
      [] name.id = <<"primary">> -> "endpoints/primary"
      [] name.id = <<"replica">> -> "endpoints/replica"
      [] OTHER -> ""

\* What psycopg.connect is given as password: None, a configured string, or a
\* minted token.
NoPassword == [kind |-> "none", text |-> "", token |-> NoToken]
Static(text) == [kind |-> "static", text |-> text, token |-> NoToken]
Minted(token) == [kind |-> "token", text |-> "", token |-> token]

Tasks == {"get_endpoint_name", "factory", "get_connection", "get_password"}
NoFactory == [made |-> FALSE, host |-> "", endpoint_name |-> NoName]
\* A call's locals: the name it resolved, the name it mints for, what get_token
\* returned, the host and password handed to connect, the exception it raised,
\* and the control-plane calls it has made.
NoRequest ==
    [task |-> "", pc |-> "idle", value |-> NoName, resolved |-> NoName,
     token_for |-> NoName, asked |-> FALSE, token |-> NoToken, host |-> "",
     password |-> NoPassword, err |-> NoErr, calls |-> 0]
InReq(t, pc) == req[t].pc = pc
OutsideService ==
    UNCHANGED <<projects, branches, roles, run, log, prev, budget, allowed,
                protected, databases, ci, db, thr, cfg, identity, todos, web, served, sess>>

\* "return token or self.password"
PasswordOr(token, password) ==
    IF token # NoToken THEN Minted(token) ELSE Static(password)

\* A handler enters one of the service's calls. get_connection needs the
\* factory; get_factory constructs it while there is none; get_password returns
\* a configured password at once.
Enter(t, task) ==
    /\ InReq(t, "idle")
    /\ tok.count < MaxTokenCalls
    /\ task = "get_connection" => fac.made
    /\ task = "factory" => ~fac.made
    /\ req' = [req EXCEPT ![t] =
                  IF task = "get_connection"
                  THEN [NoRequest EXCEPT !.task = task, !.pc = "token",
                                         !.token_for = fac.endpoint_name]
                  ELSE IF task = "get_password" /\ cfg.password # ""
                  THEN [NoRequest EXCEPT !.task = task, !.pc = "done",
                                         !.password = Static(cfg.password)]
                  ELSE [NoRequest EXCEPT !.task = task, !.pc = "lookup"]]
    /\ tok' = [tok EXCEPT !.count = @ + 1]
    /\ UNCHANGED <<endpoints, names, fac>> /\ OutsideService

\* get_endpoint_name has its value: it returns; get_host goes on to fetch the
\* endpoint; get_password goes on to get_token.
Resolved(me, name) ==
    CASE me.task = "get_endpoint_name" -> [me EXCEPT !.pc = "done", !.resolved = name]
      [] me.task = "factory" -> [me EXCEPT !.pc = "host", !.resolved = name]
      [] OTHER -> [me EXCEPT !.pc = "token", !.resolved = name, !.token_for = name]

\* "if expected in _resolved_endpoints: return _resolved_endpoints[expected]"
Lookup(t) ==
    /\ InReq(t, "lookup")
    /\ req' = [req EXCEPT ![t] =
                  IF names[Expected] # NoName
                  THEN Resolved(@, names[Expected])
                  ELSE [@ EXCEPT !.pc = "get"]]
    /\ UNCHANGED <<endpoints, names, fac, tok>> /\ OutsideService

\* "w.postgres.get_endpoint(name=expected)": found, or NotFound.
ResolveGet(t) ==
    /\ InReq(t, "get")
    /\ req' = [req EXCEPT ![t] =
                  IF CpGet(endpoints, Expected, "get_endpoint").err = NoErr
                  THEN [@ EXCEPT !.pc = "store", !.value = Expected, !.calls = @ + 1]
                  ELSE [@ EXCEPT !.pc = "list", !.calls = @ + 1,
                                 !.err = CpGet(endpoints, Expected, "get_endpoint").err]]
    /\ UNCHANGED <<endpoints, names, fac, tok>> /\ OutsideService

\* "for ep in w.postgres.list_endpoints(parent=parent)": the first one listed,
\* or the NotFound raised again.
ResolveList(t) ==
    /\ InReq(t, "list")
    /\ LET listed == CpListEndpoints(ServiceProject, ServiceBranch)
       IN  req' = [req EXCEPT ![t] =
                      IF listed # <<>>
                      THEN [@ EXCEPT !.pc = "store", !.value = listed[1].name,
                                     !.calls = @ + 1, !.err = NoErr]
                      ELSE [@ EXCEPT !.pc = "done", !.calls = @ + 1]]
    /\ UNCHANGED <<endpoints, names, fac, tok>> /\ OutsideService

\* "_resolved_endpoints[expected] = ..." and the return.
ResolveStore(t) ==
    /\ InReq(t, "store")
    /\ names' = [names EXCEPT ![Expected] = req[t].value]
    /\ req' = [req EXCEPT ![t] = Resolved(@, req[t].value)]
    /\ UNCHANGED <<endpoints, fac, tok>> /\ OutsideService

\* get_host: "w.postgres.get_endpoint(name=self.get_endpoint_name())", then the
\* factory keeps the host and settings.lakebase.endpoint_name.
FactoryInit(t) ==
    /\ InReq(t, "host")
    /\ LET got == CpGet(endpoints, req[t].resolved, "get_endpoint")
       IN  IF got.err = NoErr
           THEN /\ fac' = [made |-> TRUE, host |-> got.r.host,
                           endpoint_name |-> Expected]
                /\ req' = [req EXCEPT ![t].pc = "done", ![t].host = got.r.host,
                                      ![t].calls = @ + 1]
           ELSE /\ req' = [req EXCEPT ![t].pc = "done", ![t].err = got.err,
                                      ![t].calls = @ + 1]
                /\ UNCHANGED fac
    /\ UNCHANGED <<endpoints, names, tok>> /\ OutsideService

\* What the workspace answers a mint for this endpoint: NotFound when there is
\* no such endpoint, else a credential or a refusal.
MintAnswers(name) ==
    IF Holds(endpoints, name)
    THEN {NoErr, MintError}
    ELSE {Err("NotFound", "endpoint not found", "generate_database_credential")}

\* get_connection: "password=token".
ConnectPassword(token, password) ==
    IF token # NoToken THEN Minted(token) ELSE NoPassword

\* "_token_manager.get_token(endpoint_name=...)" and what is done with the
\* token: get_connection passes it to psycopg.connect with the factory's host,
\* get_password returns it or the configured password.
UseToken(t) ==
    /\ InReq(t, "token")
    /\ \E e \in MintAnswers(req[t].token_for) :
          /\ tok' = [TokenCall(EndpointPath(req[t].token_for), e, 0)
                     EXCEPT !.count = tok.count]
          /\ req' = [req EXCEPT ![t] =
                        [@ EXCEPT !.pc = "done", !.asked = TRUE,
                                  !.token = tok'.last.ret,
                                  !.host = IF req[t].task = "get_connection"
                                           THEN fac.host ELSE "",
                                  !.password =
                                      IF req[t].task = "get_connection"
                                      THEN ConnectPassword(tok'.last.ret, cfg.password)
                                      ELSE PasswordOr(tok'.last.ret, cfg.password)]]
    /\ UNCHANGED <<endpoints, names, fac>> /\ OutsideService

\* The caller goes on; the thread serves a next request.
Leave(t) ==
    /\ InReq(t, "done")
    /\ req' = [req EXCEPT ![t] = NoRequest]
    /\ UNCHANGED <<endpoints, names, fac, tok>> /\ OutsideService

\* Meanwhile a provisioning run elsewhere creates an endpoint on the branch.
EndpointAppears(eid) ==
    /\ CpCreateEndpointErr(ServiceProject, ServiceBranch, eid) = NoErr
    /\ endpoints' = Append(endpoints,
                           NewEndpoint(ServiceProject, ServiceBranch, eid, "READ_WRITE"))
    /\ UNCHANGED <<names, fac, req, tok>> /\ OutsideService

\* ------------------------------------------- ensure_role: the role id ----
\* Identity strings of every shape up to MaxIdentityLen characters, and two
\* long ones: as long as a role id may be, and one character longer.
IdentityChars == {"a", "A", "1", "@", ".", "_"}
SeqsUpTo(S, n) == UNION {[1..k -> S] : k \in 0..n}
RoleIdMaxLen == RoleIdMiddleMax + 2
Repeated(c, n) == [i \in 1..n |-> c]
RoleInputs ==
    SeqsUpTo(IdentityChars, MaxIdentityLen)
        \cup {Repeated("a", RoleIdMaxLen), Repeated("a", RoleIdMaxLen + 1)}
NoRid ==
    [pc |-> "given", postgres_role |-> <<>>, role_id |-> <<>>, name |-> NoName,
     create_role_id |-> <<>>, create_postgres_role |-> <<>>]

\* ensure_role up to its calls: role_id, the name get_role is asked for, and the
\* role_id and spec.postgres_role create_role is given.
DeriveRoleId ==
    /\ identity.pc = "given"
    /\ identity' = [identity EXCEPT !.pc = "derived",
                          !.role_id = RoleId(identity.postgres_role),
                          !.name = RoleName(ServiceProject, ServiceBranch,
                                            RoleId(identity.postgres_role)),
                          !.create_role_id = RoleId(identity.postgres_role),
                          !.create_postgres_role = identity.postgres_role]
    /\ UNCHANGED <<cp, run, log, prev, budget, allowed, protected, databases, ci, db,
                   tok, thr, cfg, names, fac, req, todos, web, served, sess>>

\* ------------------------------------------------------- CRUD handlers ----
\* Path parameters: texts of UUIDs, and a text that is no UUID (the id column
\* is a UUID, the path parameter any string).
TodoIds == {"u1", "u2"}
MalformedIds == {"abc"}
RequestIds == TodoIds \cup MalformedIds
NoRow == [stored |-> FALSE, completed |-> FALSE, title |-> ""]
Row(title, completed) == [stored |-> TRUE, completed |-> completed, title |-> title]
\* UpdateTodoRequest, "" and "none" for fields left out.
Bodies == [title : {"", "t"}, completed : {"none", "true", "false"}]
NoBody == [title |-> "", completed |-> "none"]
Handlers == {"get_todo", "update_todo", "toggle_todo", "delete_todo"}
NoResponse == 0
NoWeb ==
    [handler |-> "", pc |-> "idle", todo_id |-> "", body |-> NoBody,
     existing |-> NoRow, status |-> NoResponse, found |-> FALSE]
OutsideCrud ==
    UNCHANGED <<cp, run, log, prev, budget, allowed, protected, databases, ci, db,
                tok, thr, cfg, names, fac, req, identity, sess>>

\* "WHERE id = %s": the row, none, or the server's error for a text that is no
\* UUID.
SelectTodo(todo_id) ==
    IF todo_id \in MalformedIds THEN [err |-> "DataError", row |-> NoRow]
    ELSE [err |-> "", row |-> todos[todo_id]]

\* PostgresDB.update_todo: the SET list from the fields given.
Updated(row, body) ==
    [row EXCEPT !.title = IF body.title # "" THEN body.title ELSE @,
                !.completed = IF body.completed = "none" THEN @
                              ELSE body.completed = "true"]

\* The handler's answer: an exception of the session is not caught (500); None or
\* False raise HTTPException(404); else the handler's own status.
StatusOf(err, present, ok) ==
    IF err # "" THEN 500 ELSE IF ~present THEN 404 ELSE ok

WebEnter(t, handler, todo_id, body) ==
    /\ web[t].pc = "idle"
    /\ served < MaxRequests
    /\ handler # "update_todo" => body = NoBody
    /\ web' = [web EXCEPT ![t] =
                  [NoWeb EXCEPT !.handler = handler, !.todo_id = todo_id,
                                !.body = body,
                                !.pc = IF handler = "toggle_todo" THEN "read" ELSE "query"]]
    /\ served' = served + 1
    /\ UNCHANGED todos /\ OutsideCrud

Answered(me, status, found) ==
    [me EXCEPT !.pc = "done", !.status = status, !.found = found]

\* get_todo: db.get_todo.
GetTodo(t) ==
    /\ web[t].pc = "query" /\ web[t].handler = "get_todo"
    /\ LET got == SelectTodo(web[t].todo_id)
       IN  web' = [web EXCEPT ![t] =
                      Answered(@, StatusOf(got.err, got.row.stored, 200), got.row.stored)]
    /\ UNCHANGED <<todos, served>> /\ OutsideCrud

\* update_todo: db.update_todo, which selects when the body names no field and
\* else runs UPDATE ... RETURNING.
UpdateTodo(t) ==
    /\ web[t].pc = "query" /\ web[t].handler = "update_todo"
    /\ LET got == SelectTodo(web[t].todo_id)
       IN  /\ web' = [web EXCEPT ![t] =
                         Answered(@, StatusOf(got.err, got.row.stored, 200),
                                  got.row.stored)]
           /\ IF got.err = "" /\ got.row.stored /\ web[t].body # NoBody
              THEN todos' = [todos EXCEPT ![web[t].todo_id] = Updated(@, web[t].body)]
              ELSE UNCHANGED todos
    /\ UNCHANGED served /\ OutsideCrud

\* toggle_todo: "existing = db.get_todo(todo_id)", in a session of its own.
ToggleRead(t) ==
    /\ web[t].pc = "read"
    /\ LET got == SelectTodo(web[t].todo_id)
       IN  web' = [web EXCEPT ![t] =
                      IF got.err = "" /\ got.row.stored
                      THEN [@ EXCEPT !.pc = "write", !.existing = got.row, !.found = TRUE]
                      ELSE Answered(@, StatusOf(got.err, got.row.stored, 200), FALSE)]
    /\ UNCHANGED <<todos, served>> /\ OutsideCrud

\* toggle_todo: "db.update_todo(todo_id, completed=not existing['completed'])".
ToggleWrite(t) ==
    /\ web[t].pc = "write"
    /\ LET got == SelectTodo(web[t].todo_id)
       IN  /\ web' = [web EXCEPT ![t] =
                         Answered(@, StatusOf(got.err, got.row.stored, 200),
                                  got.row.stored)]
           /\ IF got.err = "" /\ got.row.stored
              THEN todos' = [todos EXCEPT ![web[t].todo_id].completed =
                                ~web[t].existing.completed]
              ELSE UNCHANGED todos
    /\ UNCHANGED served /\ OutsideCrud

\* delete_todo: db.delete_todo, "cur.rowcount > 0".
DeleteTodo(t) ==
    /\ web[t].pc = "query" /\ web[t].handler = "delete_todo"
    /\ LET got == SelectTodo(web[t].todo_id)
       IN  /\ web' = [web EXCEPT ![t] =
                         Answered(@, StatusOf(got.err, got.row.stored, 204),
                                  got.row.stored)]
           /\ IF got.err = "" /\ got.row.stored
              THEN todos' = [todos EXCEPT ![web[t].todo_id] = NoRow]
              ELSE UNCHANGED todos
    /\ UNCHANGED served /\ OutsideCrud

\* The response is sent; the thread takes a next request.
WebLeave(t) ==
    /\ web[t].pc = "done"
    /\ web' = [web EXCEPT ![t] = NoWeb]
    /\ UNCHANGED <<todos, served>> /\ OutsideCrud

\* --------------------------------------------------- PostgresDB.session ----
\* What the statements of a session may raise: the body an Exception or an
\* exception that is none (it derives from BaseException only), get_connection,
\* commit and rollback an error of the driver.
BodyError == Err("DataError", "invalid input syntax", "body")
BodyInterrupt == Err("KeyboardInterrupt", "", "body")
GetConnectionError == Err("OperationalError", "connection failed", "get_connection")
CommitError == Err("OperationalError", "commit failed", "commit")
RollbackError == Err("OperationalError", "the connection is lost", "rollback")
BaseOnlyTypes == {"KeyboardInterrupt"}
IsException(e) == e # NoErr /\ e.type \notin BaseOnlyTypes

\* A use of session: the calls made on its connection, what the body and the
\* commit raised, what is on its way to the caller, what reached the caller.
NoSession ==
    [pc |-> "idle", conn |-> FALSE, calls |-> <<>>, body |-> NoErr, commit |-> NoErr,
     pending |-> NoErr, raised |-> NoErr, used |-> 0]
OutsideSession ==
    UNCHANGED <<cp, run, log, prev, budget, allowed, protected, databases, ci, db,
                tok, thr, cfg, names, fac, req, identity, todos, web, served>>

\* Mutant of AfterRaise: the except clause is missing.
AfterRaise_NoRollback(e) == "close"

\* "except Exception: conn.rollback(); raise" and, for what it does not catch,
\* the finally clause.
AfterRaise(e) == IF IsException(e) THEN "rollback" ELSE "close"

\* with self.session() as conn
SessionEnter(t) ==
    /\ sess[t].pc = "idle"
    /\ sess[t].used < MaxSessions
    /\ sess' = [sess EXCEPT ![t] =
                   [NoSession EXCEPT !.pc = "get_connection", !.used = sess[t].used + 1]]
    /\ OutsideSession

\* conn = self._factory.get_connection(), before the try.
SessionGetConnection(t) ==
    /\ sess[t].pc = "get_connection"
    /\ \E e \in {NoErr, GetConnectionError} :
          sess' = [sess EXCEPT ![t] =
                      IF e = NoErr THEN [@ EXCEPT !.pc = "body", !.conn = TRUE]
                      ELSE [@ EXCEPT !.pc = "done", !.raised = e]]
    /\ OutsideSession

\* yield conn: the body of the with statement.
SessionBody(t) ==
    /\ sess[t].pc = "body"
    /\ \E e \in {NoErr, BodyError, BodyInterrupt} :
          sess' = [sess EXCEPT ![t] =
                      IF e = NoErr THEN [@ EXCEPT !.pc = "commit"]
                      ELSE [@ EXCEPT !.pc = AfterRaise(e), !.body = e, !.pending = e]]
    /\ OutsideSession

\* conn.commit()
SessionCommit(t) ==
    /\ sess[t].pc = "commit"
    /\ \E e \in {NoErr, CommitError} :
          sess' = [sess EXCEPT ![t] =
                      IF e = NoErr
                      THEN [@ EXCEPT !.pc = "close", !.calls = Append(@, "commit")]
                      ELSE [@ EXCEPT !.pc = AfterRaise(e), !.calls = Append(@, "commit"),
                                     !.commit = e, !.pending = e]]
    /\ OutsideSession

\* conn.rollback(); raise. An error of rollback replaces the one being handled.
SessionRollback(t) ==
    /\ sess[t].pc = "rollback"
    /\ \E e \in {NoErr, RollbackError} :
          sess' = [sess EXCEPT ![t] =
                      [@ EXCEPT !.pc = "close", !.calls = Append(@, "rollback"),
                                !.pending = IF e = NoErr THEN @ ELSE e]]
    /\ OutsideSession

\* finally: conn.close(); what is pending reaches the caller.
SessionClose(t) ==
    /\ sess[t].pc = "close"
    /\ sess' = [sess EXCEPT ![t] =
                   [@ EXCEPT !.pc = "done", !.calls = Append(@, "close"),
                             !.raised = sess[t].pending]]
    /\ OutsideSession

\* The caller goes on.
SessionLeave(t) ==
    /\ sess[t].pc = "done"
    /\ sess' = [sess EXCEPT ![t] = [NoSession EXCEPT !.used = sess[t].used]]
    /\ OutsideSession

\* ------------------------------------------------------ specifications ----
\* Control-plane states a run may meet: nothing yet; a project and a branch left
\* by an earlier partial run; a branch with a read replica listed before its
\* read-write endpoint and a role another tool bound to an identity.
OwnerIdentity == <<"A", "@", "b">>
PriorStates ==
    LET p == "todo-app"
        b == "dev-alice"
    IN  { [projects |-> <<>>, branches |-> <<>>, endpoints |-> <<>>, roles |-> <<>>],
          [projects |-> <<NewProject(p)>>, branches |-> <<NewBranch(p, b)>>,
           endpoints |-> <<>>, roles |-> <<>>],
          [projects |-> <<NewProject(p)>>, branches |-> <<NewBranch(p, b)>>,
           endpoints |-> <<NewEndpoint(p, b, "replica", "READ_ONLY"),
                           NewEndpoint(p, b, "primary", "READ_WRITE")>>,
           roles |-> <<NewRole(p, b, <<"o">>, OwnerIdentity)>>] }

InitControlPlane ==
    \E s \in PriorStates :
        /\ projects = s.projects
        /\ branches = s.branches
        /\ endpoints = s.endpoints
        /\ roles = s.roles

InitRunners ==
    /\ run = [r \in Runners |-> Idle]
    /\ log = [r \in Runners |-> <<>>]
    /\ prev = [r \in Runners |-> NoPrev]
    /\ db = [r \in Runners |-> NoDb]
    /\ thr = [t \in Threads |-> NoThread]
    /\ names = [n \in ConfiguredNames |-> NoName]
    /\ fac = NoFactory
    /\ req = [t \in Threads |-> NoRequest]
    /\ identity = NoRid
    /\ todos = [i \in TodoIds |-> NoRow]
    /\ web = [t \in Threads |-> NoWeb]
    /\ served = 0
    /\ sess = [t \in Threads |-> NoSession]

\* What the workspace tells a CI run: its identity, whether the client carries a
\* client id, the app (missing, or with the client id of its service principal,
\* <<>> for none), and what update_branch answers.
CiIdent == <<"1", "a">>
AppIdent == <<"a", "1">>
CiEnvs ==
    { [user_name |-> CiIdent, sp |-> TRUE, app |-> "found", app_sp |-> AppIdent,
       update |-> "ok", denied |-> ""],
      [user_name |-> CiIdent, sp |-> TRUE, app |-> "found", app_sp |-> <<>>,
       update |-> "limit", denied |-> ""],
      [user_name |-> CiIdent, sp |-> FALSE, app |-> "found", app_sp |-> AppIdent,
       update |-> "denied", denied |-> ""],
      [user_name |-> CiIdent, sp |-> TRUE, app |-> "missing", app_sp |-> <<>>,
       update |-> "ok", denied |-> ""] }
NoCi == [user_name |-> <<>>, sp |-> FALSE, app |-> "missing", app_sp |-> <<>>,
         update |-> "ok", denied |-> ""]
\* A workspace that refuses the caller one kind of read.
DeniedReads == {"get_project", "get_branch", "get_endpoint", "get_role"}
DenyingEnvs == {[NoCi EXCEPT !.denied = c] : c \in DeniedReads}

\* Who runs: one runner alone invoking any entry point, two runners each
\* invoking single ensure operations concurrently, one CI runner, or one runner
\* alone whose reads of one kind are refused.
Workloads ==
    { [budget |-> [r \in Runners |-> IF r = "r1" THEN SeqCalls ELSE 0],
       allowed |-> [r \in Runners |-> IF r = "r1" THEN Entries ELSE {}],
       envs |-> {NoCi}],
      [budget |-> [r \in Runners |-> ConcCalls],
       allowed |-> [r \in Runners |-> EnsureOps],
       envs |-> {NoCi}],
      [budget |-> [r \in Runners |-> IF r = "r1" THEN CiCalls ELSE 0],
       allowed |-> [r \in Runners |-> IF r = "r1" THEN CiEntries ELSE {}],
       envs |-> CiEnvs],
      [budget |-> [r \in Runners |-> IF r = "r1" THEN DeniedCalls ELSE 0],
       allowed |-> [r \in Runners |-> IF r = "r1" THEN Entries ELSE {}],
       envs |-> DenyingEnvs] }

Init ==
    /\ InitControlPlane
    /\ InitRunners
    /\ protected = {}
    /\ databases = {}
    /\ tok = NoTok
    /\ cfg = NoSettings
    /\ \E w \in Workloads :
          /\ budget = w.budget
          /\ allowed = w.allowed
          /\ ci \in w.envs

Next ==
    \E r \in Runners :
        \/ Start(r)
        \/ Repeat(r)
        \/ EnsureProjectGet(r)
        \/ EnsureProjectCreate(r)
        \/ EnsureProjectRefetch(r)
        \/ EnsureBranchGet(r)
        \/ EnsureBranchCreate(r)
        \/ EnsureBranchRefetch(r)
        \/ EnsureEndpointGet(r)
        \/ EnsureEndpointCreate(r)
        \/ EnsureEndpointRefetch(r)
        \/ EnsureEndpointList(r)
        \/ EnsureRoleGet(r)
        \/ EnsureRoleCreate(r)
        \/ ProtectBranchGet(r)
        \/ ProtectBranchUpdate(r)
        \/ CiIdentity(r)
        \/ CiAppGet(r)
        \/ DbMe(r)
        \/ DbMint(r)
        \/ DbSleep(r)
        \/ DbConnect(r)
        \/ DbExecute(r)

Spec == Init /\ [][Next]_vars

\* The application's credential cache on its own: no provisioning run.
InitToken ==
    /\ projects = <<>> /\ branches = <<>> /\ endpoints = <<>> /\ roles = <<>>
    /\ InitRunners
    /\ budget = [r \in Runners |-> 0]
    /\ allowed = [r \in Runners |-> {}]
    /\ protected = {}
    /\ databases = {}
    /\ ci = NoCi
    /\ tok = NoTok
    /\ cfg = NoSettings

NextToken ==
    \/ \E e \in TokenEndpoints : GetToken(e)
    \/ \E t \in ClockReadings : ClockReads(t)

SpecToken == InitToken /\ [][NextToken]_vars

\* The same cache under request threads that interleave inside get_token.
NextRace ==
    \/ \E t \in Threads :
          \/ \E e \in RaceEndpoints \cup {""} : TEnter(t, e)
          \/ TTestToken(t)
          \/ TTestEndpoint(t)
          \/ TTestExpiry(t)
          \/ TTestFresh(t)
          \/ TMint(t)
          \/ TSetToken(t)
          \/ TSetEndpoint(t)
          \/ TSetExpiry(t)
          \/ TReturn(t)
          \/ TLeave(t)
    \/ \E m \in ClockReadings : ClockReads(m)

SpecRace == InitToken /\ [][NextRace]_vars

\* The CRUD service: its settings, and the branch it is pointed at with no
\* endpoint yet, with its configured or another endpoint, or with a read
\* replica listed first.
ServiceBranches ==
    LET p == ServiceProject
        b == ServiceBranch
    IN  { <<>>,
          <<NewEndpoint(p, b, "default", "READ_WRITE")>>,
          <<NewEndpoint(p, b, "primary", "READ_WRITE")>>,
          <<NewEndpoint(p, b, "replica", "READ_ONLY")>>,
          <<NewEndpoint(p, b, "replica", "READ_ONLY"),
            NewEndpoint(p, b, "primary", "READ_WRITE")>> }
InitService ==
    /\ projects = <<NewProject(ServiceProject)>>
    /\ branches = <<NewBranch(ServiceProject, ServiceBranch)>>
    /\ endpoints \in ServiceBranches
    /\ roles = <<>>
    /\ InitRunners
    /\ budget = [r \in Runners |-> 0]
    /\ allowed = [r \in Runners |-> {}]
    /\ protected = {}
    /\ databases = {}
    /\ ci = NoCi
    /\ tok = NoTok
    /\ cfg \in [endpoint_id : ConfiguredEndpointIds, password : ConfiguredPasswords]

NextService ==
    \/ \E t \in Threads :
          \/ \E task \in Tasks : Enter(t, task)
          \/ Lookup(t)
          \/ ResolveGet(t)
          \/ ResolveList(t)
          \/ ResolveStore(t)
          \/ FactoryInit(t)
          \/ UseToken(t)
          \/ Leave(t)
    \/ \E eid \in ConfiguredEndpointIds : EndpointAppears(eid)

SpecService == InitService /\ [][NextService]_vars

\* ensure_role's role id for each identity string, nothing else running.
InitRoleId ==
    /\ projects = <<>> /\ branches = <<>> /\ endpoints = <<>> /\ roles = <<>>
    /\ run = [r \in Runners |-> Idle]
    /\ log = [r \in Runners |-> <<>>]
    /\ prev = [r \in Runners |-> NoPrev]
    /\ db = [r \in Runners |-> NoDb]
    /\ thr = [t \in Threads |-> NoThread]
    /\ names = [n \in ConfiguredNames |-> NoName]
    /\ fac = NoFactory
    /\ req = [t \in Threads |-> NoRequest]
    /\ budget = [r \in Runners |-> 0]
    /\ allowed = [r \in Runners |-> {}]
    /\ protected = {}
    /\ databases = {}
    /\ ci = NoCi
    /\ tok = NoTok
    /\ cfg = NoSettings
    /\ \E s \in RoleInputs : identity = [NoRid EXCEPT !.postgres_role = s]
    /\ todos = [i \in TodoIds |-> NoRow]
    /\ web = [t \in Threads |-> NoWeb]
    /\ served = 0
    /\ sess = [t \in Threads |-> NoSession]

NextRoleId == DeriveRoleId

\* The CRUD handlers over a table that holds any of the todos, done or not.
InitCrud ==
    /\ projects = <<>> /\ branches = <<>> /\ endpoints = <<>> /\ roles = <<>>
    /\ run = [r \in Runners |-> Idle]
    /\ log = [r \in Runners |-> <<>>]
    /\ prev = [r \in Runners |-> NoPrev]
    /\ db = [r \in Runners |-> NoDb]
    /\ thr = [t \in Threads |-> NoThread]
    /\ names = [n \in ConfiguredNames |-> NoName]
    /\ fac = NoFactory
    /\ req = [t \in Threads |-> NoRequest]
    /\ identity = NoRid
    /\ budget = [r \in Runners |-> 0]
    /\ allowed = [r \in Runners |-> {}]
    /\ protected = {}
    /\ databases = {}
    /\ ci = NoCi
    /\ tok = NoTok
    /\ cfg = NoSettings
    /\ todos \in [TodoIds -> {NoRow, Row("t", FALSE), Row("t", TRUE)}]
    /\ web = [t \in Threads |-> NoWeb]
    /\ served = 0
    /\ sess = [t \in Threads |-> NoSession]

NextCrud ==
    \E t \in Threads :
        \/ \E h \in Handlers : \E i \in RequestIds : \E b \in Bodies :
              WebEnter(t, h, i, b)
        \/ GetTodo(t)
        \/ UpdateTodo(t)
        \/ ToggleRead(t)
        \/ ToggleWrite(t)
        \/ DeleteTodo(t)
        \/ WebLeave(t)

SpecCrud == InitCrud /\ [][NextCrud]_vars

\* Uses of PostgresDB.session by two threads.
NextSession ==
    \E t \in Threads :
        \/ SessionEnter(t)
        \/ SessionGetConnection(t)
        \/ SessionBody(t)
        \/ SessionCommit(t)
        \/ SessionRollback(t)
        \/ SessionClose(t)
        \/ SessionLeave(t)

SpecSession == InitToken /\ [][NextSession]_vars

SpecRoleId == InitRoleId /\ [][NextRoleId]_vars

\* ============================================================ claims ====
CreateCalls == {"create_project", "create_branch", "create_endpoint", "create_role"}
GetCalls == {"get_project", "get_branch", "get_endpoint", "get_role"}
Creates(l) == SelectSeq(l, LAMBDA c : c.call \in CreateCalls)
Fetches(l) == SelectSeq(l, LAMBDA c : c.call \in GetCalls)
Rejected(l) == SelectSeq(l, LAMBDA c : c.call \in CreateCalls /\ c.err # NoErr)
Effective(l) == SelectSeq(l, LAMBDA c : c.call \in CreateCalls /\ c.err = NoErr)
CallNames(l) == [i \in DOMAIN l |-> l[i].call]

Done(r) == run[r].pc = "done"
Alone(r) == \A q \in Runners \ {r} : allowed[q] = {}
LastRet(rec) == rec[Len(rec)].res
\* The deterministic name the current ensure operation of r asks for.
RequestedName(me) ==
    CASE me.op = "ensure_project" -> ProjectName(me.pid)
      [] me.op = "ensure_branch" -> BranchName(me.pid, me.bid)
      [] me.op = "ensure_endpoint" -> EndpointName(me.pid, me.bid, me.eid)
      [] me.op = "ensure_role" -> RoleName(me.pid, me.bid, RoleId(me.ident))
\* r has just finished an ensure operation called a second time with the same
\* arguments, after a first call that returned, and nobody else is running.
SecondCallDone(r) ==
    /\ Alone(r)
    /\ run[r].entry \in EnsureOps
    /\ Done(r)
    /\ prev[r].valid
    /\ prev[r].out = "returned"

\* C1 as stated, for ensure_endpoint: the second of two identical calls returns
\* the same resource name as the first and issues no create call.
C1_SecondCallIssuesNoCreate ==
    \A r \in Runners :
        SecondCallDone(r) /\ run[r].entry = "ensure_endpoint" =>
            /\ run[r].out = "returned"
            /\ LastRet(run[r].rets).r.name = LastRet(prev[r].rets).r.name
            /\ Creates(log[r]) = <<>>

\* C1 amended: the second of two identical ensure calls returns the same result
\* as the first (the same resource, or absent again) and creates nothing; it
\* issues no create call when the first call returned a resource that carries the
\* requested name, and otherwise (an endpoint reused under another identifier,
\* an absent role) it issues the one create call again and has it rejected again.
C1_SecondCallCreatesNothing ==
    \A r \in Runners :
        SecondCallDone(r) =>
            LET first == LastRet(prev[r].rets)
                named == first.tag = "resource" /\ first.r.name = RequestedName(run[r])
            IN  /\ run[r].out = "returned"
                /\ LastRet(run[r].rets) = first
                /\ Effective(log[r]) = <<>>
                /\ named => Creates(log[r]) = <<>>
                /\ ~named => /\ Len(Creates(log[r])) = 1
                             /\ Rejected(log[r]) = Rejected(prev[r].log)

\* C1 witness: a second identical ensure_endpoint call has returned the endpoint
\* that is registered under another identifier than the requested one.
C1_Witness ==
    \E r \in Runners :
        /\ SecondCallDone(r)
        /\ run[r].entry = "ensure_endpoint"
        /\ run[r].out = "returned"
        /\ LastRet(run[r].rets).tag = "resource"
        /\ LastRet(run[r].rets).r.name # RequestedName(run[r])

\* A provision_all run by a lone runner has returned.
RunReturned(r) ==
    /\ Alone(r)
    /\ run[r].entry = "provision_all"
    /\ Done(r)
    /\ run[r].out = "returned"
\* The second of two identical provision_all runs has ended, the first having
\* started on an empty control plane and returned.
SecondRunDone(r) ==
    /\ Alone(r)
    /\ run[r].entry = "provision_all"
    /\ Done(r)
    /\ prev[r].valid
    /\ prev[r].fresh
    /\ prev[r].out = "returned"
AllFourCreates == <<"create_project", "create_branch", "create_endpoint", "create_role">>
\* Every create_endpoint call of l carries 0.5 / 2.0 CU and 300 s, every
\* create_role call the role id derived from the identity.
CreateParamsOk(l, ident) ==
    \A i \in DOMAIN l :
        /\ l[i].call = "create_endpoint" =>
              /\ l[i].params.min_cu = MinCuTenths
              /\ l[i].params.max_cu = MaxCuTenths
              /\ l[i].params.suspend = SuspendTimeoutSeconds
        /\ l[i].call = "create_role" =>
              /\ l[i].params.role_id = RoleId(ident)
              /\ l[i].params.postgres_role = ident

\* C2 as stated: a run on an empty control plane issues one create per kind in
\* the order project, branch, endpoint, role with the stated parameters, and a
\* second identical run issues zero creates and exactly four fetches.
C2_SecondRunZeroCreates ==
    \A r \in Runners :
        /\ RunReturned(r) /\ run[r].fresh =>
              /\ CallNames(Creates(log[r])) = AllFourCreates
              /\ CreateParamsOk(log[r], run[r].ident)
        /\ SecondRunDone(r) =>
              /\ Creates(log[r]) = <<>>
              /\ Len(Fetches(log[r])) = 4

\* C2 amended: a run on an empty control plane that returns issues its creates in
\* the order project, branch, endpoint, role with the stated parameters, one per
\* kind, except that it issues no endpoint create when the new branch already
\* came with an endpoint of the requested identifier; a second identical run
\* returns too, issues exactly four fetches, creates nothing, and issues again
\* exactly the create calls the first run had rejected (so zero creates when
\* the first run had none rejected).
C2_SecondRunRepeatsRejectedCreates ==
    \A r \in Runners :
        /\ RunReturned(r) /\ run[r].fresh =>
              LET gotEndpoint ==
                      \E i \in DOMAIN log[r] :
                          log[r][i].call = "get_endpoint" /\ log[r][i].err = NoErr
              IN  /\ CallNames(Creates(log[r])) =
                        IF gotEndpoint
                        THEN <<"create_project", "create_branch", "create_role">>
                        ELSE AllFourCreates
                  /\ CreateParamsOk(log[r], run[r].ident)
        /\ SecondRunDone(r) =>
              /\ run[r].out = "returned"
              /\ Len(Fetches(log[r])) = 4
              /\ Effective(log[r]) = <<>>
              /\ Creates(log[r]) = Rejected(prev[r].log)
              /\ CreateParamsOk(log[r], run[r].ident)

\* C2 witness: the second identical run has ended with four fetches and no
\* create, after a first run that started empty and had all four creates succeed.
C2_Witness ==
    \E r \in Runners :
        /\ SecondRunDone(r)
        /\ CallNames(Effective(prev[r].log)) = AllFourCreates
        /\ Creates(log[r]) = <<>>
        /\ Len(Fetches(log[r])) = 4

\* r is in (or has ended) a single ensure call whose fetch reported NotFound and
\* whose create then reported AlreadyExists.
LostCreateRace(r) ==
    /\ run[r].entry \in EnsureOps
    /\ Len(log[r]) >= 2
    /\ log[r][1].call \in GetCalls /\ log[r][1].err.type = "NotFound"
    /\ log[r][2].call \in CreateCalls /\ log[r][2].err.type = "AlreadyExists"
\* r's call ended by returning what a second fetch of the same name answered.
ReturnedRefetch(r) ==
    /\ run[r].out = "returned"
    /\ Len(log[r]) = 3
    /\ log[r][3].call = log[r][1].call
    /\ log[r][3].name = log[r][1].name
    /\ log[r][3].err = NoErr
    /\ LastRet(run[r].rets) = Found(log[r][3].out[1])

\* C3 as stated: for each of the four ensure operations, NotFound on the fetch
\* and AlreadyExists on the create lead to a further fetch of the same name whose
\* result is returned, without raising.
C3_AlreadyExistsRefetches ==
    \A r \in Runners :
        LostCreateRace(r) =>
            IF Done(r) THEN ReturnedRefetch(r) ELSE run[r].pc = "refetch"

\* C3 amended: that holds for ensure_project, ensure_branch and ensure_endpoint;
\* ensure_role does not raise either, but returns an absent result without any
\* further fetch.
C3_AlreadyExistsRecovers ==
    \A r \in Runners :
        LostCreateRace(r) =>
            IF run[r].entry = "ensure_role"
            THEN /\ Done(r)
                 /\ run[r].out = "returned"
                 /\ Len(log[r]) = 2
                 /\ LastRet(run[r].rets) = Absent
            ELSE IF Done(r) THEN ReturnedRefetch(r) ELSE run[r].pc = "refetch"

\* C3 witness: an ensure_endpoint call that lost the create race has returned the
\* endpoint it fetched again.
C3_Witness ==
    \E r \in Runners :
        /\ LostCreateRace(r)
        /\ run[r].entry = "ensure_endpoint"
        /\ Done(r)
        /\ ReturnedRefetch(r)

\* r began the call it has ended while q was in the middle of the same call with
\* the same arguments, which q has ended too.
RacedWith(r, q) == run[r].peer = q /\ Done(r) /\ Done(q)
EffectiveOf(r, q) == Effective(log[r]) \o Effective(log[q])
StoreOf(op) ==
    CASE op = "ensure_project" -> projects
      [] op = "ensure_branch" -> branches
      [] op = "ensure_endpoint" -> endpoints
      [] op = "ensure_role" -> roles
      [] op = "protect_branch" -> branches

\* C4 as stated, in its own scenario (the resource absent at both fetches, one
\* create taking effect): two concurrent runs of the same ensure operation for
\* the same name both return, and both return the same resource.
C4_BothReturnSameResource ==
    \A r \in Runners : \A q \in Runners \ {r} :
        (/\ RacedWith(r, q)
         /\ log[r][1].err.type = "NotFound" /\ log[q][1].err.type = "NotFound"
         /\ Len(EffectiveOf(r, q)) = 1) =>
            /\ run[r].out = "returned" /\ run[q].out = "returned"
            /\ LastRet(run[r].rets).tag = "resource"
            /\ LastRet(run[r].rets) = LastRet(run[q].rets)

\* C4 amended: two concurrent runs of the same ensure operation for the same
\* name end alike, both raising the same error (missing parent, rejected id) or
\* both returning; at most one create takes effect, and exactly one when the
\* resource was absent when the later run fetched and is registered under the
\* requested name at the end; ensure_project, ensure_branch and ensure_endpoint
\* return the same resource to both runs, while an ensure_role run that loses
\* the create race returns an absent result instead of the role.
C4_RacingRunsConverge ==
    \A r \in Runners : \A q \in Runners \ {r} :
        RacedWith(r, q) =>
            LET a == LastRet(run[r].rets)
                b == LastRet(run[q].rets)
                lostRole(x, y, lx) ==
                    /\ run[r].entry = "ensure_role"
                    /\ x = Absent /\ y.tag = "resource"
                    /\ lx[Len(lx)].err.type = "AlreadyExists"
            IN  /\ Len(EffectiveOf(r, q)) <= 1
                /\ run[r].out = run[q].out
                /\ run[r].out = "raised" => run[r].err = run[q].err
                /\ run[r].out = "returned" =>
                      \/ a = b
                      \/ lostRole(a, b, log[r])
                      \/ lostRole(b, a, log[q])
                /\ (/\ log[r][1].err.type = "NotFound"
                    /\ Holds(StoreOf(run[r].entry), RequestedName(run[r])))
                      => Len(EffectiveOf(r, q)) = 1

\* C4 witness: two racing ensure_branch runs have both issued a create, one took
\* effect, the other reported AlreadyExists, and both returned the same branch.
C4_Witness ==
    \E r \in Runners : \E q \in Runners \ {r} :
        /\ RacedWith(r, q)
        /\ run[r].entry = "ensure_branch"
        /\ Len(Creates(log[r])) = 1 /\ Len(Creates(log[q])) = 1
        /\ Len(EffectiveOf(r, q)) = 1
        /\ run[r].out = "returned" /\ run[q].out = "returned"
        /\ LastRet(run[r].rets) = LastRet(run[q].rets)

KnownCalls ==
    GetCalls \cup CreateCalls
    \cup {"list_endpoints", "update_branch", "current_user.me", "apps.get",
          "generate_database_credential", "sleep", "connect", "execute", "close"}
NoDuplicates(store) ==
    \A i \in DOMAIN store : \A j \in DOMAIN store :
        store[i].name = store[j].name => i = j
Occurrences(store, name) == Len(SelectSeq(store, LAMBDA x : x.name = name))
\* Every resource of the store is still in it after the step.
Kept(store, store2) ==
    \A i \in DOMAIN store : \E j \in DOMAIN store2 : store2[j] = store[i]
NothingDestroyed ==
    /\ Kept(projects, projects')
    /\ Kept(branches, branches')
    /\ Kept(endpoints, endpoints')
    /\ Kept(roles, roles')
    /\ protected \subseteq protected'
    /\ databases \subseteq databases'
ExactlyOnce ==
    /\ \A r \in Runners : \A i \in DOMAIN log[r] : log[r][i].call \in KnownCalls
    /\ NoDuplicates(projects) /\ NoDuplicates(branches)
    /\ NoDuplicates(endpoints) /\ NoDuplicates(roles)
    /\ \A r \in Runners : \A j \in DOMAIN run[r].rets :
          LET ret == run[r].rets[j]
          IN  ret.res.tag = "resource" =>
                  Occurrences(StoreOf(ret.op), ret.res.r.name) = 1

\* C5: in every state of sequential or concurrent runs the provisioner has issued
\* only fetch, create, list, protect and database-bootstrap calls (no delete), no
\* two resources of a kind carry the same name, and a resource an operation has
\* returned exists exactly once under its name; and no step removes a resource,
\* a branch protection or a database that exists.
C5_NothingDestroyedOrDuplicated == []ExactlyOnce /\ [][NothingDestroyed]_vars

\* C5 witness: of two concurrent runners one has had its call raise and the other
\* has created and returned a resource, with several endpoints on the branch.
C5_Witness ==
    \E r \in Runners : \E q \in Runners \ {r} :
        /\ run[r].out = "raised"
        /\ run[q].out = "returned"
        /\ Len(Effective(log[q])) = 1
        /\ LastRet(run[q].rets).tag = "resource"
        /\ Len(endpoints) >= 2

\* The i-th call of l is an endpoint create rejected as a bad request.
RejectedEndpointCreate(l, i) ==
    /\ l[i].call = "create_endpoint"
    /\ l[i].err.type = "BadRequest"
\* The i-th call of l is the listing that follows a fetch reporting NotFound and
\* a create rejected because a read-write endpoint already exists.
ConflictListing(l, i) ==
    /\ i >= 3
    /\ l[i].call = "list_endpoints"
    /\ RejectedEndpointCreate(l, i - 1)
    /\ ContainsAlreadyExists(l[i - 1].err.msg)
    /\ l[i - 2].call = "get_endpoint" /\ l[i - 2].err.type = "NotFound"
\* What r's ensure_endpoint returned, <<>> when it has not returned.
EndpointReturns(r) == SelectSeq(run[r].rets, LAMBDA x : x.op = "ensure_endpoint")

\* C6: when ensure_endpoint's fetch reports NotFound and its create is rejected
\* with the already-exists conflict, it lists the endpoints of the branch, and
\* when the listing is not empty it returns the first listed endpoint and does
\* not raise.
C6_ConflictReturnsFirstListed ==
    \A r \in Runners : \A i \in DOMAIN log[r] :
        /\ (RejectedEndpointCreate(log[r], i) /\ ContainsAlreadyExists(log[r][i].err.msg)) =>
              IF i = Len(log[r]) THEN At(r, "ensure_endpoint", "list")
              ELSE log[r][i + 1].call = "list_endpoints"
        /\ (ConflictListing(log[r], i) /\ log[r][i].out # <<>>) =>
              /\ EndpointReturns(r) = <<[op |-> "ensure_endpoint",
                                         res |-> Found(log[r][i].out[1])]>>
              /\ ~(run[r].out = "raised" /\ run[r].op = "ensure_endpoint")

\* C6 witness: an ensure_endpoint call has returned the first of two listed
\* endpoints, which is not the read-write one that caused the conflict.
C6_Witness ==
    \E r \in Runners : \E i \in DOMAIN log[r] :
        /\ ConflictListing(log[r], i)
        /\ Len(log[r][i].out) = 2
        /\ log[r][i].out[1] # log[r][i].out[2]
        /\ run[r].out = "returned"
        /\ EndpointReturns(r) # <<>>
        /\ EndpointReturns(r)[1].res = Found(log[r][i].out[1])

\* C7: when the create is rejected with the already-exists conflict and the
\* listing of the branch is empty, ensure_endpoint raises exactly the error the
\* create reported, and issues no further call.
C7_EmptyListingRaisesCreateError ==
    \A r \in Runners : \A i \in DOMAIN log[r] :
        (ConflictListing(log[r], i) /\ log[r][i].out = <<>>) =>
            /\ i = Len(log[r])
            /\ Done(r)
            /\ run[r].out = "raised"
            /\ run[r].err = log[r][i - 1].err
            /\ EndpointReturns(r) = <<>>

\* C7 witness: an ensure_endpoint call has raised after a conflict on create and
\* an empty listing.
C7_Witness ==
    \E r \in Runners :
        /\ Len(log[r]) >= 3
        /\ ConflictListing(log[r], Len(log[r]))
        /\ log[r][Len(log[r])].out = <<>>
        /\ run[r].out = "raised"
        /\ run[r].err.type = "BadRequest"

\* C8: a bad request on create whose message does not say that an endpoint
\* already exists ends ensure_endpoint: it is raised as reported and no listing
\* (nor any other call) follows it.
C8_OtherBadRequestPropagates ==
    \A r \in Runners : \A i \in DOMAIN log[r] :
        (RejectedEndpointCreate(log[r], i) /\ ~ContainsAlreadyExists(log[r][i].err.msg)) =>
            /\ i = Len(log[r])
            /\ Done(r)
            /\ run[r].out = "raised"
            /\ run[r].err = log[r][i].err
            /\ \A j \in DOMAIN log[r] : log[r][j].call # "list_endpoints"

\* C8 witness: an ensure_endpoint call has raised the invalid-identifier bad
\* request of its create.
C8_Witness ==
    \E r \in Runners :
        /\ Len(log[r]) >= 2
        /\ RejectedEndpointCreate(log[r], Len(log[r]))
        /\ log[r][Len(log[r])].err.msg = MsgInvalidEndpointId
        /\ run[r].out = "raised"
        /\ run[r].err = log[r][Len(log[r])].err

\* The i-th call of l is a role create that reported a conflict, after a fetch
\* that reported NotFound.
RoleConflict(l, i) ==
    /\ i >= 2
    /\ l[i].call = "create_role"
    /\ \/ l[i].err.type = "AlreadyExists"
       \/ l[i].err.type = "BadRequest" /\ l[i].err.msg = MsgRoleMapped
    /\ l[i - 1].call = "get_role" /\ l[i - 1].err.type = "NotFound"

\* C9: when ensure_role's fetch reports NotFound and its create reports a
\* conflict (AlreadyExists, or the bad request saying the identity is already
\* mapped), the operation returns an absent result, does not raise, and makes no
\* further call.
C9_RoleConflictReturnsAbsent ==
    \A r \in Runners : \A i \in DOMAIN log[r] :
        RoleConflict(log[r], i) =>
            /\ i = Len(log[r])
            /\ Done(r)
            /\ run[r].out = "returned"
            /\ LastRet(run[r].rets) = Absent
            /\ run[r].rets[Len(run[r].rets)].op = "ensure_role"

\* C9 witness: one runner's ensure_role has returned absent after AlreadyExists
\* and another's after the already-mapped bad request.
C9_Witness ==
    \E r \in Runners : \E q \in Runners \ {r} :
        /\ RoleConflict(log[r], Len(log[r]))
        /\ log[r][Len(log[r])].err.type = "AlreadyExists"
        /\ LastRet(run[r].rets) = Absent
        /\ RoleConflict(log[q], Len(log[q]))
        /\ log[q][Len(log[q])].err.type = "BadRequest"
        /\ LastRet(run[q].rets) = Absent

\* Some role of the branch binds the identity.
Bound(pid, bid, ident) ==
    \E i \in DOMAIN roles :
        /\ roles[i].name.pid = pid /\ roles[i].name.bid = bid
        /\ roles[i].postgres_role = ident

\* C10: whenever ensure_role has returned, with a role or with an absent result,
\* a role binding the given identity exists on the branch; it returns absent only
\* when the role or the mapping exists; and a bad request on create that is not
\* a conflict (an invalid role id) is raised, not reported as converged.
C10_ReturnMeansBound ==
    \A r \in Runners :
        /\ (run[r].op = "ensure_role" /\ run[r].out = "returned") =>
              /\ Bound(run[r].pid, run[r].bid, run[r].ident)
              /\ LastRet(run[r].rets) = Absent =>
                    \/ Holds(roles, RequestedName(run[r]))
                    \/ Bound(run[r].pid, run[r].bid, run[r].ident)
        /\ \A i \in DOMAIN log[r] :
              (/\ log[r][i].call = "create_role"
               /\ log[r][i].err.type = "BadRequest"
               /\ log[r][i].err.msg = MsgInvalidRoleId) =>
                  run[r].out = "raised" /\ run[r].err = log[r][i].err

\* ------------------------------------------- orchestration (C11 - C14) ----
Orchestrations == {"provision_all", "provision_ci"}
\* The place of an operation in the dependency chain of a run.
OpRank(op) ==
    CASE op = "ensure_project" -> 1
      [] op = "ensure_branch" -> 2
      [] op = "ensure_endpoint" -> 3
      [] op = "protect_branch" -> 4
      [] op \in {"provision_ci", "ensure_role"} -> 5
      [] op = "ensure_database" -> 6
\* The kind of resource a control-plane call fetches or creates (0: none).
KindRank(call) ==
    CASE call \in {"get_project", "create_project"} -> 1
      [] call \in {"get_branch", "create_branch", "update_branch"} -> 2
      [] call \in {"get_endpoint", "create_endpoint", "list_endpoints"} -> 3
      [] call \in {"get_role", "create_role"} -> 4
      [] OTHER -> 0
HasReturned(r, op) == \E k \in DOMAIN run[r].rets : run[r].rets[k].op = op
ParentChain == <<"ensure_project", "ensure_branch", "ensure_endpoint">>

\* C11: within a run of provision_all or provision_ci the calls follow the order
\* project, branch, endpoint, (branch protection,) role, database: a call
\* for a kind is issued only by the step of that kind, never before a call of an
\* earlier step, and only after the ensure operations of the parent kinds have
\* returned; role ensures and the database bootstrap come after the endpoint
\* ensure has returned.
C11_CallsFollowDependencyOrder ==
    \A r \in Runners :
        run[r].entry \in Orchestrations =>
            \A j \in DOMAIN log[r] :
                /\ \A i \in 1..(j - 1) : OpRank(log[r][i].op) <= OpRank(log[r][j].op)
                /\ KindRank(log[r][j].call) \in 1..3 =>
                      \/ KindRank(log[r][j].call) = OpRank(log[r][j].op)
                      \/ log[r][j].op = "protect_branch" /\ KindRank(log[r][j].call) = 2
                /\ KindRank(log[r][j].call) = 4 => log[r][j].op = "ensure_role"
                /\ \A k \in DOMAIN ParentChain :
                      k < OpRank(log[r][j].op) => HasReturned(r, ParentChain[k])

\* C11 witness: a provision_ci run has returned after ensuring two roles and
\* creating the database.
C11_Witness ==
    \E r \in Runners :
        /\ run[r].entry = "provision_ci"
        /\ Done(r) /\ run[r].out = "returned"
        /\ Len(SelectSeq(run[r].rets, LAMBDA x : x.op = "ensure_role")) = 2
        /\ \E i \in DOMAIN log[r] : log[r][i].call = "execute" /\ log[r][i].err = NoErr

\* The calls of l after the i-th belong to the same step and only close the
\* connection or look for the endpoint the create conflicted with.
OnlyCloseAfter(l, i) ==
    \A j \in (i + 1)..Len(l) :
        /\ l[j].op = l[i].op
        /\ l[j].call \in {"close", "list_endpoints"}
\* The steps provision_ci completes before its database bootstrap.
StepsBeforeDatabase(me) ==
    <<"ensure_project", "ensure_branch", "ensure_endpoint", "protect_branch">>
    \o (IF ci.sp THEN <<"ensure_role">> ELSE <<>>)
    \o (IF me.app # "" /\ ci.app_sp # <<>> THEN <<"ensure_role">> ELSE <<>>)
DbStarted(r) == \E i \in DOMAIN log[r] : log[r][i].op = "ensure_database"

\* C12: in provision_all and provision_ci an error a step raises ends the run:
\* the run has raised exactly the error of the last call of the failing step (the
\* closing of the connection and the listing that looks for a conflicting
\* endpoint aside), no later step has called anything, and the database
\* bootstrap has begun only after every earlier step returned.
C12_FirstErrorEndsRun ==
    \A r \in Runners :
        run[r].entry \in Orchestrations =>
            /\ run[r].out = "raised" =>
                  /\ Done(r)
                  /\ run[r].err # NoErr
                  /\ \E i \in DOMAIN log[r] :
                        /\ log[r][i].err = run[r].err
                        /\ OnlyCloseAfter(log[r], i)
            /\ DbStarted(r) =>
                  LET before == SelectSeq(run[r].rets, LAMBDA x : x.op # "ensure_database")
                  IN  [k \in DOMAIN before |-> before[k].op] = StepsBeforeDatabase(run[r])

\* C12 witness: a provision_ci run has raised at its endpoint step, and its log
\* ends with that create_endpoint call.
C12_Witness ==
    \E r \in Runners :
        /\ run[r].entry = "provision_ci"
        /\ run[r].out = "raised"
        /\ log[r][Len(log[r])].call = "create_endpoint"
        /\ log[r][Len(log[r])].err = run[r].err
        /\ ~DbStarted(r)

\* C13: whatever rejection update_branch reports, protect_branch returns (an
\* absent result) instead of raising, and provision_ci goes on.
C13_ProtectionFailureNeverFatal ==
    \A r \in Runners : \A i \in DOMAIN log[r] :
        (log[r][i].call = "update_branch" /\ log[r][i].err # NoErr) =>
            /\ HasReturned(r, "protect_branch")
            /\ ~(run[r].out = "raised" /\ run[r].err = log[r][i].err)

\* r's call before this one was a protect_branch that returned the branch.
ProtectedBefore(r) ==
    /\ run[r].entry = "protect_branch"
    /\ prev[r].valid
    /\ prev[r].out = "returned"
    /\ LastRet(prev[r].rets).tag = "resource"
UpdateCalls(l) == SelectSeq(l, LAMBDA c : c.call = "update_branch")
\* A protect_branch fetch that finds the branch protected: the step issues the
\* fetch alone and returns the branch.
ProtectedFetchReturns(r) ==
    (/\ At(r, "protect_branch", "get")
     /\ BranchName(run[r].pid, run[r].bid) \in protected
     /\ Holds(branches, BranchName(run[r].pid, run[r].bid))
     /\ log'[r] # log[r]) =>
        /\ log'[r] = Append(log[r], log'[r][Len(log'[r])])
        /\ log'[r][Len(log'[r])].call = "get_branch"
        /\ run'[r].pc # "update"
        /\ run'[r].out # "raised"
        /\ LastRet(run'[r].rets) =
              Found(Fetch(branches, BranchName(run[r].pid, run[r].bid)))
ProtectOnce ==
    \A r \in Runners :
        /\ ProtectedBefore(r) => UpdateCalls(log[r]) = <<>>
        /\ \A i \in DOMAIN log[r] :
              log[r][i].call = "update_branch" =>
                  log[r][i].params.mask = <<"spec.is_protected">>

\* C14: a protect_branch whose fetch finds the branch protected issues no update
\* and returns the branch; a protect_branch after one that returned the branch
\* issues no update call; every update names only the protection field in its
\* mask, and changes nothing but the protection of the branch.
C14_ProtectBranchIdempotent ==
    /\ []ProtectOnce
    /\ [][/\ \A r \in Runners : ProtectedFetchReturns(r)
          /\ protected' # protected => UNCHANGED cp]_vars

\* C14 witness: a second protect_branch has returned the branch without an
\* update, after a first one that updated it.
C14_Witness ==
    \E r \in Runners :
        /\ ProtectedBefore(r)
        /\ Len(UpdateCalls(prev[r].log)) = 1
        /\ Done(r) /\ run[r].out = "returned"
        /\ LastRet(run[r].rets).tag = "resource"
        /\ UpdateCalls(log[r]) = <<>>

\* --------------------------------------- database bootstrap (C15 - C18) ----
DbLog(r) == SelectSeq(log[r], LAMBDA c : c.op = "ensure_database")
Connects(l) == SelectSeq(l, LAMBDA c : c.call = "connect")
Sleeps(l) == SelectSeq(l, LAMBDA c : c.call = "sleep")
Mints(l) == SelectSeq(l, LAMBDA c : c.call = "generate_database_credential")
Statements(l) == SelectSeq(l, LAMBDA c : c.call = "execute")
\* The connection attempts of l: all but the last failed to connect, the last
\* connected and its CREATE DATABASE went through (or found the database).
SucceededAtLast(l) ==
    LET c == Connects(l)
        x == Statements(l)
    IN  /\ c # <<>>
        /\ \A n \in 1..(Len(c) - 1) : c[n].err = ConnectError(n)
        /\ c[Len(c)].err = NoErr
        /\ Len(x) = 1
        /\ x[1].err \in {NoErr, DuplicateDatabase}
\* The j-th call of l is a connection attempt made as it should be: with the
\* token minted just before it, a token no earlier mint issued, and, from the
\* second attempt on, after a delay of 5 seconds before that mint.
AttemptInOrder(l, j) ==
    LET n == Len(Connects(SubSeq(l, 1, j)))
    IN  /\ n <= MaxAttempts
        /\ j >= 2
        /\ l[j - 1].call = "generate_database_credential"
        /\ l[j - 1].err = NoErr
        /\ l[j].params.password = l[j - 1].params.password
        /\ l[j].params.password > 0
        /\ \A i \in 1..(j - 2) :
              l[i].call = "generate_database_credential" =>
                  l[i].params.password # l[j].params.password
        /\ n > 1 => /\ j >= 3
                    /\ l[j - 2].call = "sleep"
                    /\ l[j - 2].params.seconds = 5

\* C15: in ensure_database every connection attempt uses the token minted just
\* before it, and every attempt after the first follows a 5-second delay and a
\* fresh mint; a connection error before the third attempt leads to the delay;
\* and when the first k attempts fail to connect (k = 0, 1, 2) and attempt k+1
\* succeeds, there are exactly k+1 attempts, k delays and k+1 mints, and the
\* method returns.
C15_RetryUntilConnected ==
    \A r \in Runners :
        LET d == DbLog(r)
            c == Connects(d)
        IN  /\ \A j \in DOMAIN d :
                  d[j].call = "connect" =>
                      /\ AttemptInOrder(d, j)
                      /\ (d[j].err # NoErr /\ Len(Connects(SubSeq(d, 1, j))) < 3) =>
                            IF j = Len(d) THEN At(r, "ensure_database", "sleep")
                            ELSE d[j + 1].call = "sleep"
            /\ SucceededAtLast(d) =>
                  /\ Len(c) \in 1..3
                  /\ Len(Sleeps(d)) = Len(c) - 1
                  /\ Len(Mints(d)) = Len(c)
                  /\ HasReturned(r, "ensure_database")
                  /\ run[r].out = "returned"
                  /\ d[Len(d)].call = "close"

\* C15 witness: the third attempt has connected after two connection errors,
\* the database was created and the method has returned.
C15_Witness ==
    \E r \in Runners :
        /\ SucceededAtLast(DbLog(r))
        /\ Len(Connects(DbLog(r))) = 3
        /\ Statements(DbLog(r))[1].err = NoErr
        /\ HasReturned(r, "ensure_database")

\* All three attempts of l failed to connect.
AllAttemptsRefused(l) ==
    /\ Len(Connects(l)) = MaxAttempts
    /\ \A n \in 1..MaxAttempts : Connects(l)[n].err = ConnectError(n)

\* C16: ensure_database never makes a fourth connection attempt; when all three
\* attempts fail to connect it has slept exactly twice and raises the connection
\* error of the third attempt, not an earlier one.
C16_ExhaustionRaisesLastError ==
    \A r \in Runners :
        LET d == DbLog(r)
        IN  /\ Len(Connects(d)) <= 3
            /\ AllAttemptsRefused(d) =>
                  /\ Done(r)
                  /\ run[r].out = "raised"
                  /\ run[r].err = ConnectError(3)
                  /\ run[r].err # ConnectError(1) /\ run[r].err # ConnectError(2)
                  /\ Len(Sleeps(d)) = 2
                  /\ d[Len(d)].call = "connect"

\* C16 witness: three refused connections, and the run has raised.
C16_Witness ==
    \E r \in Runners :
        /\ AllAttemptsRefused(DbLog(r))
        /\ run[r].out = "raised"
        /\ run[r].err.type = "OperationalError"

\* C17: when CREATE DATABASE reports a duplicate database, on whichever attempt,
\* ensure_database closes the connection and returns: no delay, mint or attempt
\* follows.
C17_DuplicateDatabaseReturns ==
    \A r \in Runners :
        LET d == DbLog(r)
        IN  \A i \in DOMAIN d :
                (d[i].call = "execute" /\ d[i].err = DuplicateDatabase) =>
                    /\ Len(d) = i + 1
                    /\ d[i + 1].call = "close"
                    /\ HasReturned(r, "ensure_database")
                    /\ Done(r)
                    /\ run[r].out = "returned"

\* C17 witness: after a refused connection the second attempt has found the
\* database in place, and the method has returned.
C17_Witness ==
    \E r \in Runners :
        LET d == DbLog(r)
        IN  /\ Len(Connects(d)) = 2
            /\ Statements(d) # <<>>
            /\ Statements(d)[1].err = DuplicateDatabase
            /\ run[r].out = "returned"

\* C18: a failure of CREATE DATABASE other than a duplicate database, and a
\* failure of the credential mint, are raised at once: no connection attempt
\* follows them.
C18_OnlyConnectionFailureRetried ==
    \A r \in Runners :
        LET d == DbLog(r)
        IN  \A i \in DOMAIN d :
                /\ (/\ d[i].call = "execute"
                    /\ d[i].err # NoErr
                    /\ d[i].err # DuplicateDatabase) =>
                        /\ run[r].out = "raised"
                        /\ run[r].err = d[i].err
                        /\ \A j \in (i + 1)..Len(d) : d[j].call = "close"
                /\ (d[i].call = "generate_database_credential" /\ d[i].err # NoErr) =>
                        /\ run[r].out = "raised"
                        /\ run[r].err = d[i].err
                        /\ i = Len(d)

\* ----------------------------------------- credential cache (C19, C20) ----
\* Minute t lies in the validity window of the token: more than 5 minutes
\* before the 55 minutes after its mint are over.
InWindow(token, t) == t < tok.issued[token].at + 55 - 5

\* C19: of two successive get_token calls for the same endpoint name, the second
\* made within the validity window of the token the first returned, the second
\* returns the identical token and mints nothing; a call for an endpoint name
\* made with nothing cached, with a token cached for another name, or after the
\* window of the cached token has passed, mints.
C19_OneMintPerWindow ==
    LET a == tok.last
        b == tok.prior
    IN  /\ (/\ tok.count >= 2
            /\ a.endpoint # "" /\ a.endpoint = b.endpoint
            /\ b.ret # NoToken
            /\ InWindow(b.ret, a.at)) =>
                /\ a.ret = b.ret
                /\ ~a.mint
                /\ a.after = b.after
        /\ (/\ tok.count >= 1
            /\ a.endpoint # ""
            /\ \/ a.before.token = NoToken
               \/ a.before.endpoint_name # a.endpoint
               \/ ~InWindow(a.before.token, a.at)) =>
                /\ a.mint
                /\ a.ret # NoToken => a.ret # a.before.token

\* C19 witness: a token minted at minute 0 has been returned again at minute 49.
C19_Witness ==
    /\ tok.count >= 2
    /\ tok.prior.mint /\ tok.prior.ret # NoToken
    /\ tok.prior.at = 0 /\ tok.last.at = 49
    /\ tok.last.endpoint = tok.prior.endpoint
    /\ tok.last.ret = tok.prior.ret
    /\ ~tok.last.mint

\* C20: a token get_token returns for an endpoint name was minted for that
\* name; a token served from the cache is served more than 5 minutes before its
\* recorded expiry, which is its mint time plus 55 minutes; and the cache holds
\* nothing or the one token minted last, with its endpoint name and expiry.
C20_TokenScopedAndFresh ==
    LET a == tok.last
        c == tok.cache
    IN  /\ a.ret # NoToken => tok.issued[a.ret].endpoint = a.endpoint
        /\ (a.ret # NoToken /\ ~a.mint) =>
              /\ a.before.token = a.ret
              /\ a.before.expires_at = tok.issued[a.ret].at + 55
              /\ a.at < a.before.expires_at - 5
        /\ IF tok.issued = <<>> THEN c = EmptyCache
           ELSE /\ c.token = Len(tok.issued)
                /\ c.endpoint_name = tok.issued[c.token].endpoint
                /\ c.expires_at = tok.issued[c.token].at + 55

\* C20 witness: after tokens were minted for two endpoint names, the second is
\* served from the cache.
C20_Witness ==
    /\ Len(tok.issued) = 2
    /\ tok.issued[1].endpoint # tok.issued[2].endpoint
    /\ tok.last.ret = 2
    /\ ~tok.last.mint

\* ---------------------------------------------------------------- C21 ----
Returned21(t) == thr[t].pc = "done" /\ thr[t].ret # NoToken
\* C21 (part): a call never returns a token minted for another endpoint than the
\* one it asked for.
C21_TokenIsForAskedEndpoint ==
    \A t \in Threads :
        Returned21(t) => tok.issued[thr[t].ret].endpoint = thr[t].endpoint
\* C21 (part): a call that found the cache fresh returns the token whose own
\* mint wrote the expiry it compared.
C21_TokenPairedWithOwnExpiry ==
    \A t \in Threads :
        Returned21(t) /\ thr[t].hit => thr[t].seen = tok.issued[thr[t].ret].at
C22_MintFailureReturnsAbsent ==
    tok.last.mint_err # NoErr =>
        /\ tok.last.ret = NoToken
        /\ tok.last.raised = NoErr
\* A mint fails while an expired token for the same endpoint is still cached.
C22_Witness ==
    /\ tok.last.mint_err # NoErr
    /\ tok.last.before.token # NoToken
    /\ tok.last.before.endpoint_name = tok.last.endpoint
    /\ tok.last.ret = NoToken

\* ---------------------------------------------------------------- C23 ----
\* A finished call of the given kind whose get_token returned None.
TokenAbsent(t, task) ==
    /\ req[t].pc = "done"
    /\ req[t].task = task
    /\ req[t].asked
    /\ req[t].token = NoToken
C23_GetPasswordFallsBack ==
    \A t \in Threads :
        TokenAbsent(t, "get_password") => req[t].password = Static(cfg.password)
C23_GetConnectionFallsBack ==
    \A t \in Threads :
        TokenAbsent(t, "get_connection") => req[t].password = Static(cfg.password)
\* C23: when get_token returns None, get_password and get_connection alike hand
\* the configured password (possibly empty) on to the SQL connection.
C23_AbsentCredentialMeansConfiguredPassword ==
    C23_GetPasswordFallsBack /\ C23_GetConnectionFallsBack

\* ---------------------------------------------------------------- C24 ----
\* C24: for every identity string, the role id in the fetch name and the role
\* id given to create_role match ^[a-z]([a-z0-9-]{0,61}[a-z0-9])?$.
C24_RoleIdMatchesPattern ==
    identity.pc = "derived" =>
        /\ MatchesRoleIdPattern(identity.name.id)
        /\ MatchesRoleIdPattern(identity.create_role_id)

\* ---------------------------------------------------------------- C25 ----
\* The role id as the statement describes it: lowercased, '@' and '.' replaced
\* by '-', and the prefix exactly when that does not begin with a letter.
RolePrefix == <<"s", "p", "-">>
BeginsWithLetter(s) == s # <<>> /\ IsAlpha(s[1])
StatedRoleId(postgres_role) ==
    LET replaced == LowerStr(ReplaceChar(ReplaceChar(postgres_role, "@", "-"), ".", "-"))
    IN  IF BeginsWithLetter(replaced) THEN replaced ELSE RolePrefix \o replaced
C25_IdIsStatedFunction ==
    identity.pc = "derived" =>
        /\ identity.role_id = StatedRoleId(identity.postgres_role)
        /\ identity.name.id = identity.role_id
        /\ identity.create_role_id = identity.role_id
C25_IdStartsWithLetter ==
    identity.pc = "derived" => BeginsWithLetter(identity.role_id)
C25_CreateCarriesIdentity ==
    identity.pc = "derived" => identity.create_postgres_role = identity.postgres_role
\* C25: the role id is the identity lowercased with '@' and '.' replaced by '-',
\* prefixed exactly when that does not begin with a letter, so it always begins
\* with a letter; create_role is given the identity itself as postgres_role.
C25_RoleIdIsNormalizedIdentity ==
    /\ C25_IdIsStatedFunction
    /\ C25_IdStartsWithLetter
    /\ C25_CreateCarriesIdentity

\* ---------------------------------------------------------------- C26 ----
\* A call that finds its key in the cache returns the cached value and has made
\* no control-plane call.
C26_HitReturnsCachedValue ==
    [][\A t \in Threads :
          /\ InReq(t, "lookup")
          /\ req[t].task = "get_endpoint_name"
          /\ names[Expected] # NoName
          /\ req'[t] # req[t]
          => /\ req'[t].pc = "done"
             /\ req'[t].resolved = names[Expected]
             /\ req'[t].calls = 0
             /\ UNCHANGED names]_vars
\* An entry, once set, keeps its value.
C26_EntryNeverChanges ==
    [][\A n \in ConfiguredNames : names[n] # NoName => names'[n] = names[n]]_vars
Connected(t) ==
    /\ req[t].pc = "done"
    /\ req[t].task = "get_connection"
    /\ req[t].asked
C30_TokenEndpointExists ==
    \A t \in Threads : Connected(t) => Holds(endpoints, req[t].token_for)
C30_TokenEndpointIsHostEndpoint ==
    \A t \in Threads :
        Connected(t) /\ Holds(endpoints, req[t].token_for)
            => Fetch(endpoints, req[t].token_for).host = req[t].host
\* C30: the endpoint name get_connection passes to get_token names an existing
\* endpoint, the one whose host the connection is made to, also when the
\* configured endpoint does not exist and another one was found by listing.
C30_CredentialForConnectedEndpoint ==
    C30_TokenEndpointExists /\ C30_TokenEndpointIsHostEndpoint

\* ---------------------------------------------------------------- C28 ----
\* The i-th call of l is the fetch-by-name an ensure operation begins with.
IsFetch(l, i) ==
    /\ l[i].op \in EnsureOps
    /\ l[i].call \in GetCalls
    /\ i = 1 \/ l[i - 1].op # l[i].op \/ l[i - 1].call \notin CreateCalls
IsCreate(l, i) == l[i].op \in EnsureOps /\ l[i].call \in CreateCalls
\* A create directly follows the operation's own fetch of the same name, which
\* reported NotFound.
CreateFollowsNotFound(l, i) ==
    /\ i > 1
    /\ IsFetch(l, i - 1)
    /\ l[i - 1].op = l[i].op
    /\ l[i - 1].name = l[i].name
    /\ l[i - 1].err.type = "NotFound"
\* A fetch that found the resource ends the operation, which returns it.
FoundIsReturned(r, i) ==
    LET l == log[r]
    IN  /\ i = Len(l) \/ l[i + 1].op # l[i].op \/ l[i + 1].call \in GetCalls
        /\ \E k \in DOMAIN run[r].rets :
              run[r].rets[k] = [op |-> l[i].op, res |-> Found(l[i].out[1])]
\* A fetch that failed otherwise is the last call of the run, which raises it.
OtherErrorPropagates(r, i) ==
    /\ i = Len(log[r])
    /\ run[r].out = "raised"
    /\ run[r].err = log[r][i].err
\* C28: an ensure operation issues its create only after its own fetch-by-name
\* reported NotFound; a fetch that finds the resource returns it, and a fetch
\* that fails with any other error propagates it, in both cases without a create.
C28_CreateOnlyAfterNotFound ==
    \A r \in Runners : \A i \in DOMAIN log[r] :
        /\ IsCreate(log[r], i) => CreateFollowsNotFound(log[r], i)
        /\ IsFetch(log[r], i) /\ log[r][i].err = NoErr => FoundIsReturned(r, i)
        /\ IsFetch(log[r], i) /\ log[r][i].err.type \notin {"", "NotFound"}
              => OtherErrorPropagates(r, i)
\* One run in which a fetch returned its resource, a create followed a NotFound,
\* and a refused fetch ended the run.
C28_Witness ==
    \E r \in Runners :
        /\ run[r].out = "raised"
        /\ \E i \in DOMAIN log[r] : IsFetch(log[r], i) /\ log[r][i].err = NoErr
        /\ \E i \in DOMAIN log[r] : IsCreate(log[r], i) /\ log[r][i].err = NoErr
        /\ IsFetch(log[r], Len(log[r]))
        /\ log[r][Len(log[r])].err.type = "PermissionDenied"

\* ---------------------------------------------------------------- C29 ----
\* A provision_all run that returned a ProvisionResult with a host.
Provisioned(r) ==
    /\ run[r].entry = "provision_all"
    /\ run[r].out = "returned"
    /\ run[r].result.host # ""
\* C29: the endpoint_name of a ProvisionResult names the endpoint whose host the
\* result reports, also when ensure_endpoint handed back an endpoint registered
\* under another id than the requested one.
C29_ResultNamesItsHost ==
    \A r \in Runners :
        Provisioned(r) =>
            /\ Holds(endpoints, run[r].result.endpoint_name)
            /\ Fetch(endpoints, run[r].result.endpoint_name).host = run[r].result.host

\* ---------------------------------------------------------------- C27 ----
\* A request that has its answer and met no row under its id.
MetNoRow(t) == web[t].pc = "done" /\ ~web[t].found

\* An id that is the text of a UUID and has no row is answered 404, by each of
\* the four handlers, and by toggle_todo when the row went between its read and
\* its write.
C27_MissingUuidIs404 ==
    \A t \in Threads :
        MetNoRow(t) /\ web[t].todo_id \in TodoIds => web[t].status = 404

\* The step that answers a request which met no row leaves every todo as it was.
C27_NoRowNoChange ==
    [][\A t \in Threads :
          web[t].pc # "done" /\ web'[t].pc = "done" /\ ~web'[t].found
              => todos' = todos]_vars

\* toggle_todo read its todo, which another request deleted before the write.
C27_ToggleLostItsTodo ==
    \E t \in Threads :
        /\ MetNoRow(t) /\ web[t].handler = "toggle_todo"
        /\ web[t].existing.stored /\ web[t].status = 404

\* C27: every CRUD operation addressed to a todo id that does not exist (get,
\* update, toggle, delete) answers 404 and changes no stored todo, toggle also
\* when the todo is deleted between its read and its write.
C27_AbsentIdIsAnswered404 ==
    \A t \in Threads : MetNoRow(t) => web[t].status = 404
\* ---------------------------------------------------------------- C31 ----
\* Connections of ensure_database open after the first i of its calls.
OpenAfter(l, i) ==
    Cardinality({j \in 1..i : l[j].call = "connect" /\ l[j].err = NoErr})
        - Cardinality({j \in 1..i : l[j].call = "close"})

\* A call that starts an attempt or belongs to its preparation.
StartsAttempt(c) == c.call \in {"sleep", "generate_database_credential", "connect"}

\* C31: every connection ensure_database opens is closed before the next
\* attempt starts and before the method returns or raises, whatever the
\* statement did; the method never holds more than one open connection.
C31_ConnectionClosedOnEveryPath ==
    \A r \in Runners :
        LET l == DbLog(r)
        IN  /\ \A i \in 0..Len(l) : OpenAfter(l, i) \in {0, 1}
            /\ \A i \in 1..Len(l) : StartsAttempt(l[i]) => OpenAfter(l, i - 1) = 0
            /\ ~At(r, "ensure_database", "execute") => OpenAfter(l, Len(l)) = 0

\* A run whose statement failed on a connection, which was closed, then tried
\* again, found the database made meanwhile and returned.
C31_Witness ==
    \E r \in Runners :
        LET l == DbLog(r)
        IN  /\ run[r].pc = "done"
            /\ \E i, j \in 1..Len(l) :
                  /\ i < j
                  /\ l[i].call = "execute" /\ l[i].err.type = "OperationalError"
                  /\ l[i + 1].call = "close"
                  /\ l[j].call = "execute" /\ l[j].err \in {NoErr, DuplicateDatabase}
                  /\ l[j + 1].call = "close"
\* ---------------------------------------------------------------- C32 ----
\* A use of session that obtained a connection and is over.
Used(t) == sess[t].pc = "done" /\ sess[t].conn
CallsOf(t, name) == {i \in DOMAIN sess[t].calls : sess[t].calls[i] = name}
\* What the body or the commit raised.
RaisedInside(t) == IF sess[t].body # NoErr THEN sess[t].body ELSE sess[t].commit

\* The body and the commit went through: commit once, then close.
CleanUseCommits ==
    \A t \in Threads :
        Used(t) /\ RaisedInside(t) = NoErr
            => sess[t].calls = <<"commit", "close">> /\ sess[t].raised = NoErr

\* commit is never called after rollback.
NoCommitAfterRollback ==
    \A t \in Threads :
        \A i \in CallsOf(t, "rollback") : \A j \in CallsOf(t, "commit") : j < i

\* close is called exactly once and is the last call on the connection.
ClosedOnceAndLast ==
    \A t \in Threads :
        Used(t) => /\ Cardinality(CallsOf(t, "close")) = 1
                   /\ sess[t].calls[Len(sess[t].calls)] = "close"

\* An Exception of the body or the commit: rollback is called, and an exception
\* reaches the caller, the one raised or the one rollback raised in its place.
ExceptionRollsBack ==
    \A t \in Threads :
        Used(t) /\ IsException(RaisedInside(t))
            => /\ Cardinality(CallsOf(t, "rollback")) = 1
               /\ sess[t].raised \in {RaisedInside(t), RollbackError}

\* An exception of the body that is no Exception passes the except clause:
\* no rollback, close, and the exception reaches the caller.
InterruptSkipsRollback ==
    \A t \in Threads :
        Used(t) /\ sess[t].body # NoErr /\ ~IsException(sess[t].body)
            => sess[t].calls = <<"close">> /\ sess[t].raised = sess[t].body

TogglesNow(t) ==
    web[t].pc = "write" /\ web'[t].pc = "done" /\ web'[t].status = 200

\* Both threads toggled the same todo, each having read the flag before the
\* other wrote, and no other request was made.
BothToggled(i) ==
    /\ served = 2
    /\ \A t \in Threads :
          /\ web[t].pc = "done" /\ web[t].handler = "toggle_todo"
          /\ web[t].todo_id = i /\ web[t].status = 200
    /\ \A t, u \in Threads : web[t].existing = web[u].existing

\* C33: each completed toggle request flips the completed flag of its todo
\* exactly once in any interleaving of the read and write steps, so that two
\* concurrent toggles of a todo leave the flag at its original value.
C33_TwoTogglesRestore ==
    \A i \in TodoIds :
        BothToggled(i) => \A t \in Threads : todos[i].completed = web[t].existing.completed

\* The step that completes a toggle request changes the flag of its todo,
\* whatever other requests wrote since the toggle read it.
C33_ToggleFlipsOnce ==
    [][\A t \in Threads :
          TogglesNow(t)
              => todos'[web[t].todo_id].completed # todos[web[t].todo_id].completed]_vars
\* ---------------------------------------------------------------- C34 ----
\* A call that was given no endpoint name, or whose mint failed.
GaveNothing(call) == call.endpoint = "" \/ call.mint_err # NoErr

\* C34: a get_token call that fails to mint, or is given an empty endpoint
\* name, leaves the cached token, endpoint name and expiry as they were, and
\* the next call for the cached endpoint inside its validity window returns
\* the cached token without minting.
C34_FailedCallKeepsCache ==
    /\ tok.count >= 1 /\ GaveNothing(tok.last) => tok.last.after = tok.last.before
    /\ tok.count >= 2 /\ GaveNothing(tok.prior) /\ tok.last.endpoint # ""
         /\ CacheHit(tok.prior.before, tok.last.endpoint, tok.last.at)
         => tok.last.ret = tok.prior.before.token /\ ~tok.last.mint

\* A token is cached, a mint for another endpoint fails, and the next call for
\* the first endpoint is served the cached token.
C34_Witness ==
    /\ tok.prior.mint_err # NoErr
    /\ tok.prior.before.token # NoToken
    /\ tok.prior.endpoint # tok.prior.before.endpoint_name
    /\ tok.last.endpoint = tok.prior.before.endpoint_name
    /\ tok.last.ret = tok.prior.before.token
    /\ ~tok.last.mint
====
